---- MODULE Spec2Model ----
(***************************************************************************)
(* Model of the "Move Usings to GlobalUsings.cs" extension.                *)
(*                                                                         *)
(* Two variants of the program live in the repository:                     *)
(*   - src/src/extension.ts : the safety-hardened orchestrator             *)
(*     (preview, backup, build validation, rollback);                      *)
(*   - src/unnamed/part_002 : the handlers variant (concurrent per-file    *)
(*     rewrites, grouped formatting of GlobalUsings.cs).                   *)
(*                                                                         *)
(* A JavaScript string is a sequence of one-character strings.  A file     *)
(* text is kept in its split('\n') form, a non-empty sequence of lines:    *)
(* text = lines joined by '\n', so the empty text is << <<>> >> and a text *)
(* with a trailing newline ends with the empty line.  No line ever holds a *)
(* '\n', so split and join are exact inverses on this form.                *)
(*                                                                         *)
(* An array built by a map is written <<>> \o [i \in 1..n |-> e]: the       *)
(* concatenation makes it a sequence whose elements are evaluated once.    *)
(***************************************************************************)
EXTENDS Integers, Sequences, FiniteSets, TLC

(***************************************************************************)
(* Bounds                                                                  *)
(***************************************************************************)
\* largest number of new imports handed to one merge
MaxNew == 2

\* number of source files the walker finds in the project directory
NumFiles == 2

\* number of file-system and editor operations that fail in one behaviour
MaxFaults == 2

\* largest number of lines of a file handed to the extractor alone
MaxLines == 4

\* largest number of directories between the root of a walk and a file
MaxDepth == 2

\* largest number of tokens in the body of a manifest handed to the patcher alone
MaxTokens == 3

\* largest number of calls of the patcher on one manifest
MaxCalls == 2

\* the entries of an aggregate manifest
MaxRefs == 2

(***************************************************************************)
(* Characters and strings                                                  *)
(***************************************************************************)
TAB == "\t"

Upper == <<"A","B","C","D","E","F","G","H","I","J","K","L","M",
           "N","O","P","Q","R","S","T","U","V","W","X","Y","Z">>

Lower == <<"a","b","c","d","e","f","g","h","i","j","k","l","m",
           "n","o","p","q","r","s","t","u","v","w","x","y","z">>

Punct == <<TAB, " ", ".", "/", ";", "=", "{", "}">>

PunctCode == <<9, 32, 46, 47, 59, 61, 123, 125>>

IndexIn(seq, c) == CHOOSE i \in 1..Len(seq) : seq[i] = c

InSeq(seq, c) == \E i \in 1..Len(seq) : seq[i] = c

Range(seq) == {seq[i] : i \in 1..Len(seq)}

\* the characters of the texts of the model
Chars == Range(Upper) \cup Range(Lower) \cup Range(Punct)

\* UTF-16 code unit of each character
CodeUnits ==
  [c \in Chars |->
     IF InSeq(Upper, c) THEN 64 + IndexIn(Upper, c)
     ELSE IF InSeq(Lower, c) THEN 96 + IndexIn(Lower, c)
     ELSE PunctCode[IndexIn(Punct, c)]]

Code(c) == CodeUnits[c]

\* JavaScript white space (\s, String.prototype.trim)
IsWs(c) == c \in {" ", TAB}

Min(a, b) == IF a < b THEN a ELSE b

\* the least element of a set of integers, none when the set is empty
First(S, none) == IF S = {} THEN none ELSE CHOOSE i \in S : \A j \in S : i <= j

\* the greatest element of a set of integers, none when the set is empty
Last(S, none) == -First({-i : i \in S}, -none)

StartsWith(s, p) == Len(s) >= Len(p) /\ SubSeq(s, 1, Len(p)) = p

\* String.prototype.indexOf, 1-based; 0 when there is no occurrence
IndexOf(s, p) ==
  First({i \in 1..(Len(s) - Len(p) + 1) : SubSeq(s, i, i + Len(p) - 1) = p}, 0)

Includes(s, p) == IndexOf(s, p) # 0

\* the positions of a string that hold no white space
NonWs(s) == {i \in 1..Len(s) : ~IsWs(s[i])}

\* String.prototype.trim
Trim(s) == SubSeq(s, First(NonWs(s), 1), Last(NonWs(s), 0))

\* s without the n characters at position i; s when i = 0
RemoveAt(s, i, n) ==
  IF i = 0 THEN s ELSE SubSeq(s, 1, i - 1) \o SubSeq(s, i + n, Len(s))

\* s.replace(p, ''): the first occurrence of p is removed
RemoveFirst(s, p) == RemoveAt(s, IndexOf(s, p), Len(p))

\* the part of rest before position j; rest when j = 0
Before(rest, j) == IF j = 0 THEN rest ELSE SubSeq(rest, 1, j - 1)

\* the part of s after the occurrence of sep at position i
After(s, i, sep) == SubSeq(s, i + Len(sep), Len(s))

\* s.split(sep)[1], for a string that includes sep
SplitSecond(s, sep) ==
  Before(After(s, IndexOf(s, sep), sep), IndexOf(After(s, IndexOf(s, sep), sep), sep))

\* first index at which two sequences differ (past the shorter one if one is a prefix)
FirstDiff(a, b) ==
  First({i \in 1..Min(Len(a), Len(b)) : a[i] # b[i]}, Min(Len(a), Len(b)) + 1)

\* the sign of the comparison of two sequences of numbers that first differ at k
SignAt(x, y, k) ==
  IF k > Len(x) /\ k > Len(y) THEN 0
  ELSE IF k > Len(x) THEN -1
  ELSE IF k > Len(y) THEN 1
  ELSE IF x[k] < y[k] THEN -1 ELSE 1

\* lexicographic comparison of two sequences of numbers: -1, 0 or 1
SeqCompare(x, y) == SignAt(x, y, FirstDiff(x, y))

CodesOf(a) == <<>> \o [i \in 1..Len(a) |-> Code(a[i])]

\* a < b by UTF-16 code units: the order of Array.prototype.sort() without comparator
CodeUnitLess(a, b) == SeqCompare(CodesOf(a), CodesOf(b)) < 0

CodeUnitOrder(s) ==
  <<>> \o [j \in 1..Len(s) |-> <<>> \o [i \in 1..Len(s) |-> CodeUnitLess(s[j], s[i])]]

\* String.prototype.localeCompare in the root collation, on the characters of
\* the model: white space, then punctuation, then letters without regard to
\* case; on a tie of all primary weights, lower case sorts before upper case.
PrimaryWeights ==
  [c \in Chars |->
     IF InSeq(Upper, c) THEN 20 + IndexIn(Upper, c)
     ELSE IF InSeq(Lower, c) THEN 20 + IndexIn(Lower, c)
     ELSE CASE c = TAB -> 1 [] c = " " -> 2 [] c = ";" -> 3 [] c = "." -> 4
            [] c = "{" -> 5 [] c = "}" -> 6 [] c = "/" -> 7 [] c = "=" -> 8]

Primary(c) == PrimaryWeights[c]

Tertiary(c) == IF c \in Range(Upper) THEN 1 ELSE 0

PrimaryOf(a) == <<>> \o [i \in 1..Len(a) |-> Primary(a[i])]

TertiaryOf(a) == <<>> \o [i \in 1..Len(a) |-> Tertiary(a[i])]

\* the first comparison, or the second on a tie
ThenBy(c1, c2) == IF c1 # 0 THEN c1 ELSE c2

\* the sign of a.localeCompare(b): -1, 0 or 1
localeCompare(a, b) ==
  ThenBy(SeqCompare(PrimaryOf(a), PrimaryOf(b)),
         SeqCompare(TertiaryOf(a), TertiaryOf(b)))

\* Array.prototype.sort is stable.  before[j][i] tells whether element j of
\* the array sorts before element i.  The place of each element in the sorted
\* array: the number of elements that sort before it plus the number of equal
\* elements that precede it
Ranks(before) ==
  <<>> \o [i \in 1..Len(before) |->
       Cardinality({j \in 1..Len(before) : before[j][i]})
     + Cardinality({j \in 1..(i - 1) : ~before[i][j] /\ ~before[j][i]})
     + 1]

Placed(s, rank) == <<>> \o [k \in 1..Len(s) |-> s[CHOOSE i \in 1..Len(s) : rank[i] = k]]

\* Array.prototype.filter
RECURSIVE SelectSeqBy(_, _)
SelectSeqBy(s, keep) ==
  IF s = <<>> THEN <<>>
  ELSE (IF keep[1] THEN <<Head(s)>> ELSE <<>>) \o SelectSeqBy(Tail(s), Tail(keep))

\* an add that does not look for the element among those of the Set
SetAddAlways(set, x) == Append(set, x)

\* Set.prototype.add on a Set kept in insertion order
SetAdd(set, x) == IF x \in Range(set) THEN set ELSE Append(set, x)

RECURSIVE SetAddAll(_, _)
SetAddAll(set, xs) ==
  IF xs = <<>> THEN set ELSE SetAddAll(SetAdd(set, Head(xs)), Tail(xs))

(***************************************************************************)
(* Words of the texts of the model                                         *)
(***************************************************************************)
w_using == <<"u","s","i","n","g">>

w_global == <<"g","l","o","b","a","l">>

w_static == <<"s","t","a","t","i","c">>

w_namespace == <<"n","a","m","e","s","p","a","c","e">>

w_System == <<"S","y","s","t","e","m">>

w_Microsoft == <<"M","i","c","r","o","s","o","f","t">>

w_Math == <<"M","a","t","h">>

w_Text == <<"T","e","x","t">>

w_Win == <<"W","i","n">>

w_MyApp == <<"M","y","A","p","p">>

w_Services == <<"S","e","r","v","i","c","e","s">>

w_Foo == <<"F","o","o">>

sp == <<" ">>

dot == <<".">>

semi == <<";">>

\* "global using ", the marker of an entry of GlobalUsings.cs
GlobalUsingPrefix == w_global \o sp \o w_using \o sp

\* import statements as the extractor records them (trimmed lines)
u_System == w_using \o sp \o w_System \o semi

u_MyAppServices == w_using \o sp \o w_MyApp \o dot \o w_Services \o semi

u_MicrosoftWin == w_using \o sp \o w_Microsoft \o dot \o w_Win \o semi

u_SystemMath == w_using \o sp \o w_System \o dot \o w_Math \o semi

u_StaticSystemMath == w_using \o sp \o w_static \o sp \o w_System \o dot \o w_Math \o semi

u_AliasMath == w_using \o sp \o <<"M">> \o sp \o <<"=">> \o sp \o w_System \o dot \o w_Math \o semi

u_AliasText == w_using \o sp \o <<"M">> \o sp \o <<"=">> \o sp \o w_System \o dot \o w_Text \o semi

u_TabSystem == w_using \o <<TAB>> \o w_System \o semi

u_AliasMathTight == w_using \o sp \o <<"M", "=">> \o w_System \o dot \o w_Math \o semi

u_StaticTabSystemMath ==
  w_using \o sp \o w_static \o <<TAB>> \o w_System \o dot \o w_Math \o semi

\* `global ${u}`
Global(u) == w_global \o sp \o u

(***************************************************************************)
(* Global-declarations merger                                              *)
(***************************************************************************)
\* Array.prototype.join('\n'), in split form
JoinLines(ls) == IF ls = <<>> THEN << <<>> >> ELSE ls

TrimAll(lines) == <<>> \o [i \in 1..Len(lines) |-> Trim(lines[i])]

GlobalMarked(trimmed) ==
  <<>> \o [i \in 1..Len(trimmed) |-> StartsWith(trimmed[i], GlobalUsingPrefix)]

KeepGlobalMarked(trimmed) == SetAddAll(<<>>, SelectSeqBy(trimmed, GlobalMarked(trimmed)))

\* lines.map(l => l.trim()).filter(l => l.startsWith('global using ')).forEach(l => existing.add(l))
parseGlobalUsings(text) == KeepGlobalMarked(TrimAll(text))

\* usingsSet.forEach(u => existing.add(`global ${u}`))
addGlobals(existing, usingsSet) ==
  SetAddAll(existing, <<>> \o [i \in 1..Len(usingsSet) |-> Global(usingsSet[i])])

\* the line without its `global using ` prefix
WithoutGlobalUsing(usingLine) ==
  IF StartsWith(usingLine, GlobalUsingPrefix)
  THEN SubSeq(usingLine, Len(GlobalUsingPrefix) + 1, Len(usingLine))
  ELSE usingLine

\* the namespace of a line already stripped of `global using `
NamespaceOfTrimmed(trimmed) ==
  IF StartsWith(trimmed, w_static \o sp)
  THEN RemoveFirst(SubSeq(trimmed, 8, Len(trimmed)), semi)
  ELSE IF Includes(trimmed, <<" ", "=", " ">>)
  THEN RemoveFirst(SplitSecond(trimmed, <<" ", "=", " ">>), semi)
  ELSE RemoveFirst(trimmed, semi)

getNamespace(usingLine) == NamespaceOfTrimmed(WithoutGlobalUsing(usingLine))

\* the comparator of formatGlobalUsings on nsA = getNamespace(a) and
\* nsB = getNamespace(b), as "a sorts before b" (result < 0)
NamespaceLess(nsA, nsB) ==
  IF StartsWith(nsA, w_System) /\ ~StartsWith(nsB, w_System) THEN TRUE
  ELSE IF ~StartsWith(nsA, w_System) /\ StartsWith(nsB, w_System) THEN FALSE
  ELSE IF StartsWith(nsA, w_Microsoft) /\ ~StartsWith(nsB, w_Microsoft) THEN TRUE
  ELSE IF ~StartsWith(nsA, w_Microsoft) /\ StartsWith(nsB, w_Microsoft) THEN FALSE
  ELSE localeCompare(nsA, nsB) < 0

NamespacesOf(usings) == <<>> \o [i \in 1..Len(usings) |-> getNamespace(usings[i])]

\* Array.from(usingsSet).sort(comparator): the comparator looks at the
\* namespaces only, so the places are those of the namespaces
NamespaceOrder(ns) ==
  <<>> \o [j \in 1..Len(ns) |-> <<>> \o [i \in 1..Len(ns) |-> NamespaceLess(ns[j], ns[i])]]

SortByNamespace(usings) == Placed(usings, Ranks(NamespaceOrder(NamespacesOf(usings))))

GroupOfNamespace(ns) ==
  IF StartsWith(ns, w_System) THEN 1
  ELSE IF StartsWith(ns, w_Microsoft) THEN 2
  ELSE 3

\* 1 for the System group, 2 for the Microsoft group, 3 for the others
groupOf(u) == GroupOfNamespace(getNamespace(u))

RECURSIVE joinGroups(_)
\* groups.map(g => g.join('\n')).join('\n\n'), in split form
joinGroups(groups) ==
  IF groups = <<>> THEN << <<>> >>
  ELSE IF Len(groups) = 1 THEN Head(groups)
  ELSE Head(groups) \o << <<>> >> \o joinGroups(Tail(groups))

\* sortedUsings.filter(u => ...) for one of the three groups
GroupFilter(sortedUsings, g) ==
  SelectSeqBy(sortedUsings, <<>> \o [i \in 1..Len(sortedUsings) |-> groupOf(sortedUsings[i]) = g])

\* [systemUsings, microsoftUsings, otherUsings].filter(g => g.length > 0)
NonEmptyGroups(all) == SelectSeqBy(all, <<>> \o [i \in 1..Len(all) |-> all[i] # <<>>])

GroupsOf(sortedUsings) ==
  NonEmptyGroups(<<GroupFilter(sortedUsings, 1), GroupFilter(sortedUsings, 2),
                   GroupFilter(sortedUsings, 3)>>)

formatGlobalUsings(usingsSet) ==
  Append(joinGroups(GroupsOf(SortByNamespace(usingsSet))), <<>>)

\* Array.from(existing).sort().join('\n') + '\n'  (extension.ts)
sortGlobalUsings(existing) ==
  Append(JoinLines(Placed(existing, Ranks(CodeUnitOrder(existing)))), <<>>)

\* the content written by writeGlobalUsings of the handlers variant; g is the
\* GlobalUsings.cs file, a record [exists, text]
mergeGrouped(g, usingsSet) ==
  formatGlobalUsings(addGlobals(IF g.exists THEN parseGlobalUsings(g.text) ELSE <<>>,
                                usingsSet))

\* the content written by writeGlobalUsings of extension.ts
mergeSorted(g, usingsSet) ==
  sortGlobalUsings(addGlobals(IF g.exists THEN parseGlobalUsings(g.text) ELSE <<>>,
                              usingsSet))

(***************************************************************************)
(* Import extractor                                                        *)
(***************************************************************************)
\* index of the first white-space-free position after position i; 0 if none
FirstNonWsAfter(t, i) == First({k \in (i + 1)..Len(t) : ~IsWs(t[k])}, 0)

\* /^using\s+\S.*;$/.test(t)  (extension.ts)
usingRegex(t) ==
  /\ StartsWith(t, w_using)
  /\ Len(t) >= 8
  /\ IsWs(t[6])
  /\ FirstNonWsAfter(t, 6) # 0
  /\ FirstNonWsAfter(t, 6) < Len(t)
  /\ t[Len(t)] = ";"

\* [^=;]+(?:\s*=\s*[^;]+)? matches r, whose first "=" is at p (0: none)
AliasPartOk(r, p) == p # 0 => (p >= 2 /\ p < Len(r))

\* /^using\s+(static\s+)?[^=;]+(?:\s*=\s*[^;]+)?;\s*$/.test(t), t trimmed  (handlers)
usingRegexHandlers(t) ==
  /\ StartsWith(t, w_using)
  /\ Len(t) >= 8
  /\ IsWs(t[6])
  /\ t[Len(t)] = ";"
  /\ \A k \in 1..(Len(t) - 1) : t[k] # ";"
  /\ AliasPartOk(SubSeq(t, 7, Len(t) - 1), IndexOf(SubSeq(t, 7, Len(t) - 1), <<"=">>))

\* the whole file taken for the region of the imports
namespaceIdxAtEnd(lines) == Len(lines) + 1

\* lines.findIndex(l => l.trim().startsWith('namespace ')), 1-based, and
\* lines.length (here Len + 1) when there is none
namespaceIdx(lines) ==
  First({i \in 1..Len(lines) : StartsWith(Trim(lines[i]), w_namespace \o sp)},
        Len(lines) + 1)

\* the lines the loop of extractUsings (extension.ts) takes as imports
UsingFlags(trimmed, N) ==
  <<>> \o [i \in 1..Len(trimmed) |-> i < N /\ usingRegex(trimmed[i])]

\* no line is blanked
BlankedNone(content, isUsing) == content

\* lines[i] = '' for each of them
Blanked(content, isUsing) ==
  <<>> \o [i \in 1..Len(content) |-> IF isUsing[i] THEN <<>> ELSE content[i]]

\* a filter that keeps every line
KeepEveryLine(trimmed, N) == <<>> \o [i \in 1..Len(trimmed) |-> TRUE]

\* the filter of updatedLines, on the trimmed lines
KeepFlags(trimmed, N) ==
  <<>> \o [i \in 1..Len(trimmed) |->
     IF trimmed[i] = <<>>
     THEN \/ i >= N
          \/ \E k \in 1..(i - 1) :
               /\ trimmed[k] # <<>>
               /\ ~StartsWith(trimmed[k], w_using \o sp)
     ELSE TRUE]

ExtractResult(content, isUsing, N) ==
  [usings |-> SelectSeqBy(TrimAll(content), isUsing),
   updatedContent |->
     JoinLines(SelectSeqBy(Blanked(content, isUsing),
                           KeepFlags(TrimAll(Blanked(content, isUsing)), N)))]

\* extractUsings of extension.ts: [usings, updatedContent]
extractUsings(content) ==
  ExtractResult(content, UsingFlags(TrimAll(content), namespaceIdx(content)),
                namespaceIdx(content))

\* a loop that takes every non-blank line before the namespace declaration
UsingFlagsEveryLine(trimmed, N) ==
  <<>> \o [i \in 1..Len(trimmed) |-> i < N /\ trimmed[i] # <<>>]

\* the lines the loop of extractUsings (handlers) takes as imports
UsingFlagsHandlers(trimmed, N) ==
  <<>> \o [i \in 1..Len(trimmed) |-> i < N /\ usingRegexHandlers(trimmed[i])]

\* the lines that are not in linesToRemove
KeepFlagsHandlers(trimmed, isUsing, N) ==
  <<>> \o [i \in 1..Len(trimmed) |-> ~(isUsing[i] \/ (i < N /\ trimmed[i] = <<>>))]

ExtractResultHandlers(content, trimmed, isUsing, N) ==
  [usings |-> SelectSeqBy(trimmed, isUsing),
   updatedContent |->
     JoinLines(SelectSeqBy(content, KeepFlagsHandlers(trimmed, isUsing, N)))]

\* extractUsings of the handlers variant
extractUsingsHandlers(content) ==
  ExtractResultHandlers(content, TrimAll(content),
                        UsingFlagsHandlers(TrimAll(content), namespaceIdx(content)),
                        namespaceIdx(content))

(***************************************************************************)
(* Directory walker                                                        *)
(***************************************************************************)
\* names of directories and files; a path is a sequence of names
n_src == <<"s","r","c">>

n_bin == <<"b","i","n">>

n_obj == <<"o","b","j">>

n_vs == <<".","v","s">>

n_git == <<".","g","i","t">>

n_Properties == <<"P","r","o","p","e","r","t","i","e","s">>

f_A == <<"A",".","c","s">>

f_notes == <<"a",".","t","x","t">>

globalUsingsFileName ==
  <<"G","l","o","b","a","l","U","s","i","n","g","s",".","c","s">>

f_MyGlobalUsings == <<"M","y">> \o globalUsingsFileName

dotCs == <<".","c","s">>

\* String.prototype.endsWith
EndsWith(s, p) == Len(s) >= Len(p) /\ SubSeq(s, Len(s) - Len(p) + 1, Len(s)) = p

\* path.join(dir, name) as a string, for a path given by its names
RECURSIVE PathString(_)
PathString(p) ==
  IF Len(p) = 0 THEN <<>>
  ELSE IF Len(p) = 1 THEN p[1]
  ELSE PathString(SubSeq(p, 1, Len(p) - 1)) \o <<"/">> \o p[Len(p)]

\* p lies below the directory dir
Below(dir, p) == Len(p) > Len(dir) /\ SubSeq(p, 1, Len(dir)) = dir

\* the order in which readdir lists the names of a directory
ListingOrder ==
  <<n_git, n_vs, f_A, globalUsingsFileName, f_MyGlobalUsings, n_Properties,
    f_notes, n_bin, n_obj, n_src>>

\* fs.readdir(dir) on a tree given by the paths of its files
readdir(tree, dir) ==
  SelectSeqBy(ListingOrder,
              <<>> \o [i \in 1..Len(ListingOrder) |->
                         \E p \in tree : Below(dir, p) /\ p[Len(dir) + 1] = ListingOrder[i]])

\* stat.isDirectory() of an entry of the tree
isDirectory(tree, filePath) == \E p \in tree : Below(filePath, p)

\* a test that looks at the names bin, obj and .vs only
isSkippedByName(file) == file = n_bin \/ file = n_obj \/ file = n_vs

\* file === 'bin' || file === 'obj' || file === '.vs' || file.startsWith('.')
isSkipped(file) ==
  file = n_bin \/ file = n_obj \/ file = n_vs \/ StartsWith(file, <<".">>)

\* the default of the setting globalusings-helper.skippedDirectories
DefaultSkippedDirectories == <<n_bin, n_obj, n_vs, n_git, n_Properties>>

\* skippedDirs.includes(name) || name.startsWith('.')
isSkippedHandlers(skippedDirs, name) ==
  InSeq(skippedDirs, name) \/ StartsWith(name, <<".">>)

\* filePath.endsWith('.cs') && !filePath.endsWith('GlobalUsings.cs')
isSourceFile(filePath) ==
  EndsWith(PathString(filePath), dotCs)
    /\ ~EndsWith(PathString(filePath), globalUsingsFileName)

\* name.endsWith('.cs') && name !== 'GlobalUsings.cs'
isSourceFileHandlers(name) == EndsWith(name, dotCs) /\ name # globalUsingsFileName

NoWalk == [results |-> <<>>, read |-> {}]

\* the results of two walks one after the other
WalkThen(a, b) == [results |-> a.results \o b.results, read |-> a.read \cup b.read]

\* findCsFilesRecursively of extension.ts on dir: the paths it returns and the
\* directories it has listed.  denied holds the directories whose readdir fails
RECURSIVE walkFrom(_, _, _, _, _)
walkFrom(tree, denied, dir, list, i) ==
  IF i > Len(list) THEN NoWalk
  ELSE WalkThen(
         IF isDirectory(tree, Append(dir, list[i]))
         THEN IF isSkipped(list[i]) THEN NoWalk
              ELSE IF Append(dir, list[i]) \in denied
              THEN [results |-> <<>>, read |-> {Append(dir, list[i])}]
              ELSE WalkThen([results |-> <<>>, read |-> {Append(dir, list[i])}],
                            walkFrom(tree, denied, Append(dir, list[i]),
                                     readdir(tree, Append(dir, list[i])), 1))
         ELSE IF isSourceFile(Append(dir, list[i]))
         THEN [results |-> <<Append(dir, list[i])>>, read |-> {}]
         ELSE NoWalk,
         walkFrom(tree, denied, dir, list, i + 1))

findCsFilesRecursively(tree, denied, dir) ==
  IF dir \in denied THEN [results |-> <<>>, read |-> {dir}]
  ELSE WalkThen([results |-> <<>>, read |-> {dir}],
                walkFrom(tree, denied, dir, readdir(tree, dir), 1))

\* findCsFilesRecursively of the handlers variant
RECURSIVE walkFromHandlers(_, _, _, _, _, _)
walkFromHandlers(tree, denied, skippedDirs, dir, list, i) ==
  IF i > Len(list) THEN NoWalk
  ELSE WalkThen(
         IF isDirectory(tree, Append(dir, list[i]))
         THEN IF isSkippedHandlers(skippedDirs, list[i]) THEN NoWalk
              ELSE IF Append(dir, list[i]) \in denied
              THEN [results |-> <<>>, read |-> {Append(dir, list[i])}]
              ELSE WalkThen([results |-> <<>>, read |-> {Append(dir, list[i])}],
                            walkFromHandlers(tree, denied, skippedDirs,
                                             Append(dir, list[i]),
                                             readdir(tree, Append(dir, list[i])), 1))
         ELSE IF isSourceFileHandlers(list[i])
         THEN [results |-> <<Append(dir, list[i])>>, read |-> {}]
         ELSE NoWalk,
         walkFromHandlers(tree, denied, skippedDirs, dir, list, i + 1))

findCsFilesRecursivelyHandlers(tree, denied, skippedDirs, dir) ==
  IF dir \in denied THEN [results |-> <<>>, read |-> {dir}]
  ELSE WalkThen([results |-> <<>>, read |-> {dir}],
                walkFromHandlers(tree, denied, skippedDirs, dir, readdir(tree, dir), 1))

(***************************************************************************)
(* Manifest resolver                                                       *)
(*                                                                         *)
(* An aggregate manifest is the sequence of its entries: the lines of a    *)
(* .sln, the elements of a .slnx.  An entry is [project, path]: whether it *)
(* is a Project entry, and the path it holds (empty when it holds none).   *)
(* A path on disk is the sequence of its names.                            *)
(***************************************************************************)
dotCsproj == <<".","c","s","p","r","o","j">>

n_sln == <<"s","l","n">>

n_A == <<"A">>

n_B == <<"B">>

f_Acsproj == n_A \o dotCsproj

f_Bcsproj == n_B \o dotCsproj

f_Wvbproj == <<"W",".","v","b","p","r","o","j">>

\* the separators path.resolve splits on: both on win32, '/' on posix
Separators(sep) == IF sep = "\\" THEN {"/", "\\"} ELSE {"/"}

\* the names between the separators of a path string
RECURSIVE splitOn(_, _, _, _)
splitOn(s, seps, cur, acc) ==
  IF s = <<>> THEN Append(acc, cur)
  ELSE IF Head(s) \in seps THEN splitOn(Tail(s), seps, <<>>, Append(acc, cur))
  ELSE splitOn(Tail(s), seps, Append(cur, Head(s)), acc)

\* the normalisation of path.resolve: '' and '.' are dropped, '..' goes up
RECURSIVE normalize(_, _)
normalize(names, acc) ==
  IF names = <<>> THEN acc
  ELSE IF Head(names) = <<>> \/ Head(names) = <<".">> THEN normalize(Tail(names), acc)
  ELSE IF Head(names) = <<".", ".">>
  THEN normalize(Tail(names), IF acc = <<>> THEN acc ELSE SubSeq(acc, 1, Len(acc) - 1))
  ELSE normalize(Tail(names), Append(acc, Head(names)))

\* path.resolve(dir, rel) for a relative path rel
resolve(sep, dir, rel) == normalize(dir \o splitOn(rel, Separators(sep), <<>>, <<>>), <<>>)

\* match[1].replace(/\\/g, path.sep)
replaceBackslashes(s, sep) ==
  <<>> \o [i \in 1..Len(s) |-> IF s[i] = "\\" THEN sep ELSE s[i]]

\* the entry matches /Project\(".*?"\)\s*=\s*".*?",\s*"(.+?\.csproj)",/
matchesProjectLine(entry) ==
  entry.project /\ Len(entry.path) > Len(dotCsproj) /\ EndsWith(entry.path, dotCsproj)

\* the element is a Project with projPath && projPath.endsWith('.csproj')
isProjectElement(entry) ==
  entry.project /\ entry.path # <<>> /\ EndsWith(entry.path, dotCsproj)

\* a check that finds every path
fileExistsAlways(disk, filePath) == TRUE

\* fs.promises.access(absProjPath, fs.constants.F_OK) does not throw
access(disk, filePath) == filePath \in disk

\* fileExists of the handlers
fileExists(disk, filePath) == filePath \in disk

\* getCsprojPathsFromSln of extension.ts: the loop over the matches
RECURSIVE getCsprojPathsFromSln(_, _, _, _, _)
getCsprojPathsFromSln(entries, disk, sep, slnDir, csprojPaths) ==
  IF entries = <<>> THEN csprojPaths
  ELSE IF matchesProjectLine(Head(entries))
          /\ access(disk, resolve(sep, slnDir, replaceBackslashes(Head(entries).path, sep)))
  THEN getCsprojPathsFromSln(
         Tail(entries), disk, sep, slnDir,
         Append(csprojPaths, resolve(sep, slnDir, replaceBackslashes(Head(entries).path, sep))))
  ELSE getCsprojPathsFromSln(Tail(entries), disk, sep, slnDir, csprojPaths)

\* getCsprojPathsFromSln of the handlers
RECURSIVE getCsprojPathsFromSlnHandlers(_, _, _, _, _)
getCsprojPathsFromSlnHandlers(entries, disk, sep, slnDir, csprojPaths) ==
  IF entries = <<>> THEN csprojPaths
  ELSE IF matchesProjectLine(Head(entries))
          /\ fileExists(disk, resolve(sep, slnDir, replaceBackslashes(Head(entries).path, sep)))
  THEN getCsprojPathsFromSlnHandlers(
         Tail(entries), disk, sep, slnDir,
         Append(csprojPaths, resolve(sep, slnDir, replaceBackslashes(Head(entries).path, sep))))
  ELSE getCsprojPathsFromSlnHandlers(Tail(entries), disk, sep, slnDir, csprojPaths)

\* parseSlnxFileAsync: the loop over the Project elements
RECURSIVE parseSlnxFileAsync(_, _, _, _, _)
parseSlnxFileAsync(entries, disk, sep, slnxDir, csprojPaths) ==
  IF entries = <<>> THEN csprojPaths
  ELSE IF isProjectElement(Head(entries))
          /\ fileExists(disk, resolve(sep, slnxDir, Head(entries).path))
  THEN parseSlnxFileAsync(Tail(entries), disk, sep, slnxDir,
                          Append(csprojPaths, resolve(sep, slnxDir, Head(entries).path)))
  ELSE parseSlnxFileAsync(Tail(entries), disk, sep, slnxDir, csprojPaths)

(***************************************************************************)
(* Conflict detection                                                      *)
(***************************************************************************)
\* \w on the characters of the model
IsWordChar(c) == c \in Range(Upper) \cup Range(Lower)

\* where the text after /^using\s+/ starts; 0 when the prefix does not match
NameStart(u) ==
  IF StartsWith(u, w_using) /\ Len(u) >= 7 /\ IsWs(u[6])
  THEN FirstNonWsAfter(u, 6) ELSE 0

\* where (\w+) ends: the first character after j that is no word character
NameEnd(u, j) ==
  IF j = 0 THEN 0 ELSE First({k \in j..Len(u) : ~IsWordChar(u[k])}, 0)

\* where \s*= ends: the position of the "=" after the name
EqualsAt(u, j, e) ==
  IF e = 0 \/ e = j THEN 0
  ELSE IF u[e] = "=" THEN e
  ELSE IF IsWs(u[e]) THEN FirstNonWsAfter(u, e) ELSE 0

AliasOk(u, q) ==
  /\ q # 0
  /\ u[q] = "="
  /\ u[Len(u)] = ";"
  /\ Len(u) - 1 >= q + 1

\* what \s*(.+) captures of a non-empty rest: the rest from its first
\* character that is no white space, or its last character
Captured(rest) == SubSeq(rest, First(NonWs(rest), Len(rest)), Len(rest))

AliasResult(u, j, e, q) ==
  [ok |-> AliasOk(u, q),
   alias |-> IF AliasOk(u, q) THEN SubSeq(u, j, e - 1) ELSE <<>>,
   target |-> IF AliasOk(u, q) THEN Captured(SubSeq(u, q + 1, Len(u) - 1)) ELSE <<>>]

AliasFromName(u, j, e) == AliasResult(u, j, e, EqualsAt(u, j, e))

AliasFrom(u, j) == AliasFromName(u, j, NameEnd(u, j))

\* using.match(/^using\s+(\w+)\s*=\s*(.+);$/): [ok, alias, target]
aliasMatch(u) == AliasFrom(u, NameStart(u))

StaticOk(s0) ==
  StartsWith(s0, w_static) /\ Len(s0) >= 9 /\ IsWs(s0[7]) /\ s0[Len(s0)] = ";"

StaticResult(s0) ==
  [ok |-> StaticOk(s0),
   staticType |-> IF StaticOk(s0) THEN Captured(SubSeq(s0, 8, Len(s0) - 1)) ELSE <<>>]

\* the text from position j on; empty when j = 0
From(u, j) == IF j = 0 THEN <<>> ELSE SubSeq(u, j, Len(u))

\* using.match(/^using\s+static\s+(.+);$/): [ok, staticType]
staticMatch(u) == StaticResult(From(u, NameStart(u)))

\* aliases.set / existing.push
AliasesAfter(aliases, am) ==
  IF ~am.ok THEN aliases
  ELSE IF am.alias \in DOMAIN aliases
  THEN [aliases EXCEPT ![am.alias] = @ \cup {am.target}]
  ELSE [a \in DOMAIN aliases \cup {am.alias} |->
          IF a = am.alias THEN {am.target} ELSE aliases[a]]

WithAliasConflict(conflicts, aliases, am) ==
  IF am.ok /\ am.alias \in DOMAIN aliases /\ am.target \notin aliases[am.alias]
  THEN Append(conflicts, [kind |-> "alias", name |-> am.alias])
  ELSE conflicts

WithStaticConflict(conflicts, statics, sm) ==
  IF sm.ok /\ sm.staticType \in statics
  THEN Append(conflicts, [kind |-> "static", name |-> sm.staticType])
  ELSE conflicts

StaticsAfter(statics, sm) == IF sm.ok THEN statics \cup {sm.staticType} ELSE statics

RECURSIVE detectFrom(_, _, _, _)
\* one iteration of the loop of detectConflicts, on the matches of the import
detectStep(usings, aliases, statics, conflicts, am, sm) ==
  detectFrom(Tail(usings), AliasesAfter(aliases, am), StaticsAfter(statics, sm),
             WithStaticConflict(WithAliasConflict(conflicts, aliases, am), statics, sm))

\* the loop of detectConflicts: aliases maps an alias to its targets,
\* statics is the set of static types seen, the result is the conflicts list
detectFrom(usings, aliases, statics, conflicts) ==
  IF usings = <<>> THEN conflicts
  ELSE detectStep(usings, aliases, statics, conflicts,
                  aliasMatch(Head(usings)), staticMatch(Head(usings)))

\* a detector that finds nothing
detectNothing(usings) == <<>>

detectConflicts(usings) == detectFrom(usings, <<>>, {}, <<>>)

(***************************************************************************)
(* State                                                                   *)
(***************************************************************************)
VARIABLES
  files,          \* file system: text of each source file of the project
  gu,             \* file system: GlobalUsings.cs of the project, [exists, text]
  csproj,         \* file system: the project manifest, a sequence of tokens
  op,             \* the handler of the current run
  pc,             \* its position
  allUsings,      \* the Set allUsings, in insertion order
  filesToModify,  \* the array filesToModify
  backups,        \* the array backups
  idx,            \* index of the loop of applyChanges
  task,           \* position of each per-file task of handleProjectAsync
  previewContent, \* newGlobalContent shown by showPreview
  buildOutcome,   \* what execAsync('dotnet build') did
  rbReason,       \* why rollbackChanges is called: "build" or "exception"
  ui,             \* notifications and prompts shown during the run
  outcome,        \* how the run ended
  prev,           \* whether the run before ended Committed, and the files it could not read
  pre,            \* the file system when the run started
  wlog,           \* the write attempts of the run, in order
  declined,       \* the user has declined a prompt of the run
  skipped,        \* files whose read failed during Scanning
  snapFailed,     \* a read failed while the backups were taken
  rbFailed,       \* backups whose restore write failed
  applyFailedAt,  \* index in filesToModify of the rewrite that failed, or 0
  faults,         \* number of operations that have failed so far
  mGu,            \* merger: the existing GlobalUsings.cs, [exists, text]
  mNew,           \* merger: usingsSet, in insertion order
  mVariant,       \* merger: "none", or which writeGlobalUsings produced mOut
  mOut,           \* merger: the content written
  mPerm,          \* merger: the content written for another presentation order
  mAgain,         \* merger: the content of merging nothing into mOut
  mDone,          \* merger: which of "perm", "again" have been computed
  xText,          \* extractor: the content of the file
  xVariant,       \* extractor: "none", or which extractUsings produced xOut
  xOut,           \* extractor: what extractUsings returned for xText
  xAgain,         \* extractor: what it returned for xOut.updatedContent
  xDone,          \* extractor: xAgain has been computed
  wTree,          \* walker: the paths of the files of the tree
  wRoot,          \* walker: the directory the walk starts from
  wDenied,        \* walker: the directories that cannot be listed
  wSkippedDirs,   \* walker: the setting skippedDirectories
  wVariant,       \* walker: "none", or which findCsFilesRecursively produced wOut
  wOut,           \* walker: the paths returned and the directories listed
  sMembers,       \* solution: csprojPaths, the members that were resolved
  sDisk,          \* solution: the directory of each member, [files, gu, csproj]
  sCur,           \* solution: index of the loop over csprojPaths
  sPc,            \* solution: position of handleSolution
  sOutcomes,      \* solution: how the runs on the members ended, in order
  sUi,            \* solution: notifications and prompts shown since the command
  sResult,        \* solution: how handleSolution ended
  pText,          \* patcher: the text of the manifest, a sequence of tokens
  pCalls,         \* patcher: number of calls of updateCsprojFile so far
  pWrote,         \* patcher: number of those calls that wrote the manifest
  pSettled,       \* patcher: a call has ended without a failed read or write
  rEntries,       \* resolver: the entries of the aggregate manifest, in order
  rDisk,          \* resolver: the paths of the files on disk
  rSep,           \* resolver: path.sep of the platform
  rVariant,       \* resolver: "none", or which resolver produced rOut
  rOut,           \* resolver: the paths returned
  cDirs,          \* concurrent solution: projectDir of each member run
  cText,          \* concurrent solution: the text of each source file
  cTask,          \* concurrent solution: position of each per-file task of each run
  cUpdated,       \* concurrent solution: updatedContent of each task
  cUsings,        \* concurrent solution: allUsings of each run
  cGu,            \* concurrent solution: GlobalUsings.cs of each directory
  cExisting,      \* concurrent solution: what writeGlobalUsings of each run read
  cPre,           \* concurrent solution: the source texts before the operation
  cPc             \* concurrent solution: position of each run

fsVars == <<files, gu, csproj>>

runVars == <<op, pc, allUsings, filesToModify, backups, idx, task, previewContent,
             buildOutcome, rbReason, ui, outcome, prev, pre, wlog, declined,
             skipped, snapFailed, rbFailed, applyFailedAt>>

mergeVars == <<mGu, mNew, mVariant, mOut, mPerm, mAgain, mDone>>

extractVars == <<xText, xVariant, xOut, xAgain, xDone>>

walkVars == <<wTree, wRoot, wDenied, wSkippedDirs, wVariant, wOut>>

slnVars == <<sMembers, sDisk, sCur, sPc, sOutcomes, sUi, sResult>>

patchVars == <<pText, pCalls, pWrote, pSettled>>

resolveVars == <<rEntries, rDisk, rSep, rVariant, rOut>>

sharedVars == <<cDirs, cText, cTask, cUpdated, cUsings, cGu, cExisting, cPc, cPre>>

\* the variables of the other specifications, which a project run leaves alone
pureVars == <<mergeVars, extractVars, walkVars, slnVars, patchVars, resolveVars, sharedVars>>

\* the variables of the orchestrators
orchVars == <<fsVars, runVars, faults>>

\* the variables outside each specification of a pure function
outsideMerge == <<orchVars, extractVars, walkVars, slnVars, patchVars, resolveVars, sharedVars>>

outsideExtract == <<orchVars, mergeVars, walkVars, slnVars, patchVars, resolveVars, sharedVars>>

outsideWalk == <<orchVars, mergeVars, extractVars, slnVars, patchVars, resolveVars, sharedVars>>

vars == <<fsVars, runVars, pureVars, faults>>

(***************************************************************************)
(* File system of one project                                              *)
(***************************************************************************)
EmptyText == << <<>> >>

AbsentFile == [exists |-> FALSE, text |-> EmptyText]

\* the path of GlobalUsings.cs among the paths 1..NumFiles of the source files
GlobalUsingsPath == 0

SourceFiles == 1..NumFiles

namespaceLine == w_namespace \o sp \o w_Foo

\* imports, a blank line, the namespace declaration
TextPlain == <<u_System, u_AliasMath, <<>>, namespaceLine>>

\* a header comment above an import that binds the alias of TextPlain elsewhere
TextHeader == << <<"/", "/", " ", "x">>, u_AliasText, <<>>, namespaceLine>>

\* no import before the namespace declaration
TextNone == <<namespaceLine, u_System>>

SourceTexts == {TextPlain, TextHeader, TextNone}

\* a hand-edited GlobalUsings.cs: a comment, an indented entry, entries out of
\* order, no newline at the end
EditedGlobalText ==
  << <<"/", "/", " ", "x">>,
     sp \o sp \o Global(u_MyAppServices),
     Global(u_System) >>

CompileRef == "<Compile Include=\"GlobalUsings.cs\" />"

\* another element that names the file
RemoveRef == "<Compile Remove=\"GlobalUsings.cs\" />"

\* the tokens that hold 'GlobalUsings.cs'
NamesGlobalUsings == {CompileRef, RemoveRef}

\* a lookup that never finds the name
includesNothing(content) == FALSE

\* csprojContent.includes(globalUsingsFileName)
includesFileName(content) == \E i \in 1..Len(content) : content[i] \in NamesGlobalUsings

\* project manifests, as sequences of tokens
ManifestSdk == <<"<Project>", "<PropertyGroup/>", "</Project>">>

ManifestItems == <<"<Project>", "<ItemGroup>", "<Compile Include=\"A.cs\" />",
                   "</ItemGroup>", "</Project>">>

Manifests == {ManifestSdk, ManifestItems}

\* the first and the last position of a token; 0 if it does not occur
FirstPos(q, tok) ==
  LET c == {i \in 1..Len(q) : q[i] = tok}
  IN IF c = {} THEN 0 ELSE CHOOSE i \in c : \A j \in c : i <= j

LastPos(q, tok) ==
  LET c == {i \in 1..Len(q) : q[i] = tok}
  IN IF c = {} THEN 0 ELSE CHOOSE i \in c : \A j \in c : i >= j

InsertAfter(q, i, toks) == SubSeq(q, 1, i) \o toks \o SubSeq(q, i + 1, Len(q))

\* updatedContent of updateCsprojFile for a manifest that was read
patchedCsproj(content) ==
  IF includesFileName(content) THEN content
  ELSE IF FirstPos(content, "<ItemGroup>") # 0
  THEN InsertAfter(content, FirstPos(content, "<ItemGroup>"), <<CompileRef>>)
  ELSE IF LastPos(content, "</Project>") # 0
  THEN InsertAfter(content, LastPos(content, "</Project>") - 1,
                   <<"<ItemGroup>", CompileRef, "</ItemGroup>">>)
  ELSE content

(***************************************************************************)
(* Build validation                                                        *)
(***************************************************************************)
\* what execAsync('dotnet build', {timeout: 60000}) can do: reject (non-zero
\* exit, spawn error), reject after the timeout killed the build, or resolve
\* with an output that holds 'Build succeeded' and 'Build FAILED' or not
BuildOutcomes ==
  {[kind |-> "error", succeeded |-> FALSE, failed |-> FALSE],
   [kind |-> "timeout", succeeded |-> FALSE, failed |-> FALSE]}
  \cup {[kind |-> "exit0", succeeded |-> a, failed |-> b] : a, b \in BOOLEAN}

\* the timeout option of execAsync, in milliseconds
execTimeout == 60000

\* an exec that waits for the build however long it takes
settlesWithoutTimeout(o) == o.kind # "timeout"

\* the promise of execAsync settles: the build ends by itself, or the timeout
\* kills it
settles(o) == o.kind # "timeout" \/ execTimeout > 0

validateBuildByExitOnly(o) == o.kind = "exit0"

validateBuild(o) == o.kind = "exit0" /\ (o.succeeded \/ ~o.failed)

\* the texts a source file of the model can hold: as first found, and as an
\* extractor rewrites them
KnownTexts ==
  SourceTexts \cup {extractUsings(t).updatedContent : t \in SourceTexts}
              \cup {extractUsingsHandlers(t).updatedContent : t \in SourceTexts}

\* extractUsings of extension.ts on the content of a file, evaluated once for
\* each text of the model
extracted ==
  [t \in KnownTexts |-> extractUsings(t)]

extractedFrom(content) ==
  IF content \in KnownTexts THEN extracted[content] ELSE extractUsings(content)

\* extractUsings of the handlers on the content of a file, likewise
extractedHandlers ==
  [t \in KnownTexts |-> extractUsingsHandlers(t)]

extractedHandlersFrom(content) ==
  IF content \in KnownTexts THEN extractedHandlers[content]
  ELSE extractUsingsHandlers(content)

(***************************************************************************)
(* Project orchestrator of extension.ts: handleProject                     *)
(***************************************************************************)
NoBuild == [kind |-> "none", succeeded |-> FALSE, failed |-> FALSE]

NoRun == [committed |-> FALSE, skipped |-> {}]

Snapshot == [files |-> files, gu |-> gu, csproj |-> csproj]

\* an array of backups that still holds those of the run before
StaleBackups == backups

\* const backups: FileBackup[] = []
NewBackups == <<>>

\* the run-local state before a run
RunReset ==
  /\ allUsings' = <<>>
  /\ filesToModify' = <<>>
  /\ backups' = NewBackups
  /\ idx' = 0
  /\ task' = [f \in SourceFiles |-> "none"]
  /\ previewContent' = EmptyText
  /\ buildOutcome' = NoBuild
  /\ rbReason' = "none"
  /\ ui' = <<>>
  /\ outcome' = "none"
  /\ prev' = IF outcome = "Committed"
              THEN [committed |-> TRUE, skipped |-> skipped]
              ELSE NoRun
  /\ pre' = Snapshot
  /\ wlog' = <<>>
  /\ declined' = FALSE
  /\ skipped' = {}
  /\ snapFailed' = FALSE
  /\ rbFailed' = {}
  /\ applyFailedAt' = 0

RunIdle ==
  /\ op = "none"
  /\ pc = "idle"
  /\ allUsings = <<>>
  /\ filesToModify = <<>>
  /\ backups = <<>>
  /\ idx = 0
  /\ task = [f \in SourceFiles |-> "none"]
  /\ previewContent = EmptyText
  /\ buildOutcome = NoBuild
  /\ rbReason = "none"
  /\ ui = <<>>
  /\ outcome = "none"
  /\ prev = NoRun
  /\ wlog = <<>>
  /\ declined = FALSE
  /\ skipped = {}
  /\ snapFailed = FALSE
  /\ rbFailed = {}
  /\ applyFailedAt = 0

\* the orchestrator variables of the specification of the merger
OrchestratorIdle ==
  /\ files = [f \in SourceFiles |-> TextNone]
  /\ gu = AbsentFile
  /\ csproj = ManifestSdk
  /\ pre = [files |-> files, gu |-> gu, csproj |-> csproj]
  /\ faults = 0
  /\ RunIdle

\* the merger variables of the specification of the orchestrator
MergerIdle ==
  /\ mGu = AbsentFile
  /\ mNew = <<>>
  /\ mVariant = "none"
  /\ mOut = EmptyText
  /\ mPerm = EmptyText
  /\ mAgain = EmptyText
  /\ mDone = {}

NoExtract == [usings |-> <<>>, updatedContent |-> EmptyText]

\* the extractor variables of the other specifications
ExtractorIdle ==
  /\ xText = EmptyText
  /\ xVariant = "none"
  /\ xOut = NoExtract
  /\ xAgain = NoExtract
  /\ xDone = FALSE

\* the walker variables of the other specifications
WalkerIdle ==
  /\ wTree = {}
  /\ wRoot = <<>>
  /\ wDenied = {}
  /\ wSkippedDirs = <<>>
  /\ wVariant = "none"
  /\ wOut = NoWalk

\* the solution variables of the other specifications
SolutionIdle ==
  /\ sMembers = <<>>
  /\ sDisk = <<>>
  /\ sCur = 0
  /\ sPc = "idle"
  /\ sOutcomes = <<>>
  /\ sUi = <<>>
  /\ sResult = "none"

\* the patcher variables of the other specifications
PatcherIdle ==
  /\ pText = <<>>
  /\ pCalls = 0
  /\ pWrote = 0
  /\ pSettled = FALSE

\* the resolver variables of the other specifications
ResolverIdle ==
  /\ rEntries = <<>>
  /\ rDisk = {}
  /\ rSep = "/"
  /\ rVariant = "none"
  /\ rOut = <<>>

\* the variables of the concurrent solution in the other specifications
SharedIdle ==
  /\ cDirs = <<>>
  /\ cText = <<>>
  /\ cTask = <<>>
  /\ cUpdated = <<>>
  /\ cUsings = <<>>
  /\ cGu = <<>>
  /\ cExisting = <<>>
  /\ cPc = <<>>
  /\ cPre = <<>>

Init ==
  /\ files \in [SourceFiles -> SourceTexts]
  /\ gu \in {AbsentFile, [exists |-> TRUE, text |-> EditedGlobalText]}
  /\ csproj \in Manifests
  /\ pre = [files |-> files, gu |-> gu, csproj |-> csproj]
  /\ faults = 0
  /\ RunIdle
  /\ MergerIdle
  /\ ExtractorIdle
  /\ WalkerIdle
  /\ SolutionIdle
  /\ PatcherIdle
  /\ ResolverIdle
  /\ SharedIdle

Notify(msg) == ui' = Append(ui, msg)

\* n more operations fail, within the bound
Fail(n) == faults + n <= MaxFaults /\ faults' = faults + n

Cost(failure) == IF failure THEN 1 ELSE 0

Logged(kind, path, ok) == [kind |-> kind, path |-> path, ok |-> ok]

\* The command is invoked when no run is in progress: on the project as it
\* is at first, or again after a run that ended Committed.  (After a run that
\* ended otherwise the project is as it was, or holds what a failed restore
\* left; such a project is not run again here.)  The runs of one behaviour are
\* runs of one variant of the extension.
CanStart(handler) ==
  \/ pc = "idle"
  \/ pc = "done" /\ op = handler /\ outcome = "Committed"
  \/ /\ pc = "done" /\ op = "previewMoveUsingsToGlobal" /\ outcome = "preview-approved"
     /\ handler = "handleProjectAsync"

\* the command handler of activate invokes handleProject on a .csproj
StartHandleProject ==
  /\ CanStart("handleProject")
  /\ op' = "handleProject"
  /\ pc' = "scan"
  /\ RunReset
  /\ UNCHANGED <<fsVars, pureVars, faults>>

\* a loop that an unreadable file ends
abortBatch(f) == NumFiles + 1

\* the file the loop goes on with after the catch block of lines 130-132
afterUnreadable(f) == f + 1

RECURSIVE scanFrom(_, _, _, _, _)
\* the body of the loop for a file that was read, ex being what extractUsings
\* returns for it
scanFile(f, unreadable, fileText, all, ftm, ex) ==
  IF ex.usings = <<>> THEN scanFrom(f + 1, unreadable, fileText, all, ftm)
  ELSE scanFrom(f + 1, unreadable, fileText, SetAddAll(all, ex.usings),
                Append(ftm, [filePath |-> f, usings |-> ex.usings,
                             updatedContent |-> ex.updatedContent]))

\* the first pass of handleProject over csFiles, from file f on; the files of
\* unreadable throw on readFile and are skipped
scanFrom(f, unreadable, fileText, all, ftm) ==
  IF f > NumFiles THEN [allUsings |-> all, filesToModify |-> ftm]
  ELSE IF f \in unreadable
  THEN scanFrom(afterUnreadable(f), unreadable, fileText, all, ftm)
  ELSE scanFile(f, unreadable, fileText, all, ftm, extractedFrom(fileText[f]))

\* a test that never finds the set empty
noUsingsNever(usingsSet) == FALSE

\* allUsings.size === 0
noUsings(usingsSet) == usingsSet = <<>>

\* Scanning: lines 113-140
Scan ==
  /\ op = "handleProject"
  /\ pc = "scan"
  /\ \E unreadable \in SUBSET SourceFiles :
       LET r == scanFrom(1, unreadable, files, <<>>, <<>>)
       IN /\ Fail(Cardinality(unreadable))
          /\ allUsings' = r.allUsings
          /\ filesToModify' = r.filesToModify
          /\ skipped' = unreadable
          /\ IF noUsings(r.allUsings)
             THEN /\ Notify("info:No using statements to move.")
                  /\ outcome' = "noop"
                  /\ pc' = "done"
             ELSE /\ pc' = "conflict"
                  /\ UNCHANGED <<ui, outcome>>
  /\ UNCHANGED <<op, backups, idx, task, previewContent, buildOutcome, rbReason, prev,
                 pre, wlog, declined, snapFailed, rbFailed, applyFailedAt>>
  /\ UNCHANGED <<fsVars, pureVars>>

\* the buttons of a modal prompt, and its dismissal
ConflictChoices == {"Continue", "Cancel", "dismissed"}

\* ConflictCheck: lines 142-159
ConflictCheck ==
  /\ op = "handleProject"
  /\ pc = "conflict"
  /\ IF detectConflicts(allUsings) # <<>>
     THEN \E choice \in ConflictChoices :
            /\ ui' = Append(ui, "prompt:Potential conflicts detected.")
            /\ IF choice # "Continue"
               THEN /\ declined' = TRUE
                    /\ outcome' = "conflict-declined"
                    /\ pc' = "done"
               ELSE /\ pc' = "preview"
                    /\ UNCHANGED <<declined, outcome>>
     ELSE /\ pc' = "preview"
          /\ UNCHANGED <<ui, declined, outcome>>
  /\ UNCHANGED <<op, allUsings, filesToModify, backups, idx, task, previewContent,
                 buildOutcome, rbReason, prev, pre, wlog, skipped, snapFailed,
                 rbFailed, applyFailedAt>>
  /\ UNCHANGED <<fsVars, pureVars, faults>>

PreviewChoices == {"Apply Changes", "Continue", "Cancel", "dismissed"}

\* the value showPreview returns: the answer to its prompt, or to the prompt
\* of its catch block when showing the preview failed
previewApprovedUnlessCancelled(failed, choice) == choice # "Cancel"

previewApproved(failed, choice) ==
  IF failed THEN choice = "Continue" ELSE choice = "Apply Changes"

\* Preview: lines 161-166 and showPreview
Preview ==
  /\ op = "handleProject"
  /\ pc = "preview"
  /\ \E readOk \in BOOLEAN, failed \in BOOLEAN, choice \in PreviewChoices :
       /\ (gu.exists \/ readOk)
       /\ Fail(Cost(~readOk) + Cost(failed))
       /\ (failed => choice \in {"Continue", "Cancel", "dismissed"})
       /\ (~failed => choice \in {"Apply Changes", "Cancel", "dismissed"})
       /\ previewContent' =
            sortGlobalUsings(addGlobals(IF gu.exists /\ readOk
                                        THEN parseGlobalUsings(gu.text) ELSE <<>>,
                                        allUsings))
       /\ ui' = IF failed
                THEN ui \o <<"error:Could not show preview.", "prompt:Could not show preview.">>
                ELSE Append(ui, "prompt:Preview the changes and confirm to proceed.")
       /\ declined' = (choice \notin {"Apply Changes", "Continue"})
       /\ IF previewApproved(failed, choice)
          THEN /\ pc' = "backup"
               /\ UNCHANGED outcome
          ELSE /\ outcome' = "preview-declined"
               /\ pc' = "done"
  /\ UNCHANGED <<op, allUsings, filesToModify, backups, idx, task, buildOutcome,
                 rbReason, prev, pre, wlog, skipped, snapFailed, rbFailed, applyFailedAt>>
  /\ UNCHANGED <<fsVars, pureVars>>

backupOfNothing(filePath, originalContent) ==
  [filePath |-> filePath, originalContent |-> EmptyText]

backupOf(filePath, originalContent) ==
  [filePath |-> filePath, originalContent |-> originalContent]

\* Backing-up: lines 168-190.  failAt is the index of the file of
\* filesToModify whose read throws (0: none); guReadOk tells whether
\* GlobalUsings.cs, when it exists, can be read.
Backup ==
  /\ op = "handleProject"
  /\ pc = "backup"
  /\ \E failAt \in 0..Len(filesToModify), guReadOk \in BOOLEAN :
       /\ (gu.exists \/ guReadOk)
       /\ (failAt # 0 => guReadOk)
       /\ Fail(Cost(failAt # 0) + Cost(~guReadOk))
       /\ IF failAt # 0
          THEN /\ snapFailed' = TRUE
               /\ backups' = backups \o
                                [i \in 1..(failAt - 1) |->
                                   backupOf(filesToModify[i].filePath,
                                            files[filesToModify[i].filePath])]
               /\ Notify("error:Error: Failed to create backup")
               /\ outcome' = "failed"
               /\ pc' = "done"
               /\ UNCHANGED idx
          ELSE /\ snapFailed' = (gu.exists /\ ~guReadOk)
               /\ backups' =
                    backups
                    \o [i \in 1..Len(filesToModify) |->
                          backupOf(filesToModify[i].filePath, files[filesToModify[i].filePath])]
                    \o (IF gu.exists /\ guReadOk
                        THEN <<backupOf(GlobalUsingsPath, gu.text)>> ELSE <<>>)
               /\ pc' = "apply"
               /\ idx' = 1
               /\ UNCHANGED <<ui, outcome>>
  /\ UNCHANGED <<op, allUsings, filesToModify, task, previewContent, buildOutcome,
                 rbReason, prev, pre, wlog, declined, skipped, rbFailed, applyFailedAt>>
  /\ UNCHANGED <<fsVars, pureVars>>

\* Applying, the loop of applyChanges: lines 549-552; a writeFile that throws
\* leaves the file as it was and takes the run to the catch block of line 213
ApplyFile ==
  /\ op = "handleProject"
  /\ pc = "apply"
  /\ idx <= Len(filesToModify)
  /\ \E ok \in BOOLEAN :
       /\ Fail(Cost(~ok))
       /\ wlog' = Append(wlog, Logged("rewrite", filesToModify[idx].filePath, ok))
       /\ IF ok
          THEN /\ files' = [files EXCEPT ![filesToModify[idx].filePath] =
                                            filesToModify[idx].updatedContent]
               /\ idx' = idx + 1
               /\ UNCHANGED <<pc, rbReason, applyFailedAt>>
          ELSE /\ applyFailedAt' = idx
               /\ rbReason' = "exception"
               /\ pc' = "rollback"
               /\ UNCHANGED <<files, idx>>
  /\ UNCHANGED <<op, allUsings, filesToModify, backups, task, previewContent,
                 buildOutcome, ui, outcome, prev, pre, declined, skipped, snapFailed,
                 rbFailed>>
  /\ UNCHANGED <<gu, csproj, pureVars>>

\* every per-file rewrite of applyChanges has completed
AllRewritten == idx > Len(filesToModify)

\* Applying, writeGlobalUsings: lines 555-579; a failed read of the existing
\* file is caught and the file is taken as absent
ApplyGlobalUsings ==
  /\ op = "handleProject"
  /\ pc = "apply"
  /\ AllRewritten
  /\ \E readOk \in BOOLEAN, ok \in BOOLEAN :
       /\ (gu.exists \/ readOk)
       /\ Fail(Cost(~readOk) + Cost(~ok))
       /\ wlog' = Append(wlog, Logged("global", GlobalUsingsPath, ok))
       /\ IF ok
          THEN /\ gu' = [exists |-> TRUE,
                         text |-> mergeSorted([exists |-> gu.exists /\ readOk,
                                               text |-> gu.text], allUsings)]
               /\ pc' = "csproj"
               /\ UNCHANGED rbReason
          ELSE /\ rbReason' = "exception"
               /\ pc' = "rollback"
               /\ UNCHANGED gu
  /\ UNCHANGED <<op, allUsings, filesToModify, backups, idx, task, previewContent,
                 buildOutcome, ui, outcome, prev, pre, declined, skipped, snapFailed,
                 rbFailed, applyFailedAt>>
  /\ UNCHANGED <<files, csproj, pureVars>>

\* a catch block that throws the error again
updateCsprojRethrows(failed) == failed

\* whether updateCsprojFile throws when its read or its write has failed: the
\* catch block of lines 625-628 logs the error and returns
updateCsprojThrows(failed) == FALSE

\* updateCsprojFile: lines 196-197 and 581-629; every failure is swallowed
UpdateCsproj ==
  /\ op = "handleProject"
  /\ pc = "csproj"
  /\ \E readOk \in BOOLEAN, ok \in BOOLEAN :
       /\ (readOk \/ ok)
       /\ ((readOk /\ patchedCsproj(csproj) = csproj) => ok)
       /\ Fail(Cost(~readOk) + Cost(~ok))
       /\ LET writes == readOk /\ patchedCsproj(csproj) # csproj
          IN /\ wlog' = Append(wlog, Logged("manifest", "csproj", writes /\ ok))
             /\ csproj' = IF writes /\ ok THEN patchedCsproj(csproj) ELSE csproj
       /\ IF updateCsprojThrows(~readOk \/ ~ok)
          THEN /\ rbReason' = "exception"
               /\ pc' = "rollback"
          ELSE /\ pc' = "validate"
               /\ UNCHANGED rbReason
  /\ UNCHANGED <<op, allUsings, filesToModify, backups, idx, task, previewContent,
                 buildOutcome, ui, outcome, prev, pre, declined, skipped,
                 snapFailed, rbFailed, applyFailedAt>>
  /\ UNCHANGED <<files, gu, pureVars>>

\* validateBuild starts `dotnet build`: line 635; the build does one of the
\* things of BuildOutcomes, "timeout" being a build that does not end in time
RunBuild ==
  /\ op = "handleProject"
  /\ pc = "validate"
  /\ buildOutcome = NoBuild
  /\ buildOutcome' \in BuildOutcomes
  /\ UNCHANGED <<op, pc, allUsings, filesToModify, backups, idx, task, previewContent,
                 rbReason, ui, outcome, prev, pre, wlog, declined, skipped, snapFailed,
                 rbFailed, applyFailedAt>>
  /\ UNCHANGED <<fsVars, pureVars, faults>>

\* Validating: lines 199-211, once the promise of execAsync has settled
Validate ==
  /\ op = "handleProject"
  /\ pc = "validate"
  /\ buildOutcome # NoBuild
  /\ settles(buildOutcome)
  /\ IF validateBuild(buildOutcome)
     THEN /\ Notify("info:Successfully moved using statements to GlobalUsings.cs!")
          /\ outcome' = "Committed"
          /\ pc' = "done"
          /\ UNCHANGED rbReason
     ELSE /\ rbReason' = "build"
          /\ pc' = "rollback"
          /\ UNCHANGED <<ui, outcome>>
  /\ UNCHANGED <<op, allUsings, filesToModify, backups, idx, task, previewContent,
                 buildOutcome, prev, pre, wlog, declined, skipped, snapFailed, rbFailed,
                 applyFailedAt>>
  /\ UNCHANGED <<fsVars, pureVars, faults>>

\* the backups rollbackChanges writes back when the writes of failSet throw
restored(failSet) == {i \in 1..Len(backups) : i \notin failSet}

\* rollbackChanges (lines 663-676) and the end of the run: after a failed
\* build the error notification of line 205, after an exception the rethrow
\* of line 216, which the command handler of activate reports
Rollback ==
  /\ op = "handleProject"
  /\ pc = "rollback"
  /\ \E failSet \in SUBSET (1..Len(backups)) :
       /\ Fail(Cardinality(failSet))
       /\ rbFailed' = failSet
       /\ files' = [f \in SourceFiles |->
                      IF \E i \in restored(failSet) : backups[i].filePath = f
                      THEN backups[CHOOSE i \in restored(failSet) :
                                     backups[i].filePath = f].originalContent
                      ELSE files[f]]
       /\ gu' = IF \E i \in restored(failSet) : backups[i].filePath = GlobalUsingsPath
                THEN [exists |-> TRUE,
                      text |-> backups[CHOOSE i \in restored(failSet) :
                                         backups[i].filePath = GlobalUsingsPath].originalContent]
                ELSE gu
       /\ wlog' = wlog \o [i \in 1..Len(backups) |->
                             Logged("restore", backups[i].filePath, i \notin failSet)]
  /\ IF rbReason = "build"
     THEN Notify("error:Build failed after moving usings. Changes have been rolled back.")
     ELSE Notify("error:Error: write failed")
  /\ outcome' = "RolledBack"
  /\ pc' = "done"
  /\ UNCHANGED <<op, allUsings, filesToModify, backups, idx, task, previewContent,
                 buildOutcome, rbReason, prev, pre, declined, skipped, snapFailed,
                 applyFailedAt>>
  /\ UNCHANGED <<csproj, pureVars>>

(***************************************************************************)
(* Project orchestrator of the handlers variant: handleProjectAsync        *)
(***************************************************************************)
StartHandleProjectAsync ==
  /\ CanStart("handleProjectAsync")
  /\ RunReset
  /\ op' = "handleProjectAsync"
  /\ pc' = "tasks"
  /\ UNCHANGED <<fsVars, pureVars, faults>>

\* a per-file task of the Promise.all of lines 44-55 reads and extracts; the
\* tasks run in any order
AsyncRead(f) ==
  /\ op = "handleProjectAsync"
  /\ pc = "tasks"
  /\ task[f] = "none"
  /\ \E ok \in BOOLEAN :
       /\ Fail(Cost(~ok))
       /\ IF ok
          THEN LET ex == extractedHandlersFrom(files[f])
               IN /\ allUsings' = SetAddAll(allUsings, ex.usings)
                  /\ task' = [task EXCEPT ![f] = IF ex.usings = <<>> THEN "done" ELSE "write"]
                  /\ UNCHANGED skipped
          ELSE /\ task' = [task EXCEPT ![f] = "done"]
               /\ skipped' = skipped \cup {f}
               /\ UNCHANGED allUsings
  /\ UNCHANGED <<op, pc, filesToModify, backups, idx, previewContent, buildOutcome, rbReason, ui,
                 outcome, prev, pre, wlog, declined, snapFailed, rbFailed, applyFailedAt>>
  /\ UNCHANGED <<fsVars, pureVars>>

\* the task writes the file back (updatedContent is the task's local, taken
\* from the text it read); a write that throws is ignored
AsyncWrite(f) ==
  /\ op = "handleProjectAsync"
  /\ pc = "tasks"
  /\ task[f] = "write"
  /\ \E ok \in BOOLEAN :
       /\ Fail(Cost(~ok))
       /\ wlog' = Append(wlog, Logged("rewrite", f, ok))
       /\ files' = IF ok
                   THEN [files EXCEPT ![f] = extractedHandlersFrom(files[f]).updatedContent]
                   ELSE files
  /\ task' = [task EXCEPT ![f] = "done"]
  /\ UNCHANGED <<op, pc, allUsings, filesToModify, backups, idx, previewContent,
                 buildOutcome, rbReason, ui, outcome, prev, pre, declined, skipped,
                 snapFailed, rbFailed, applyFailedAt>>
  /\ UNCHANGED <<gu, csproj, pureVars>>

SomeTaskDone == \E f \in SourceFiles : task[f] = "done"

\* await Promise.all(...): every task has settled (no task rejects)
AllTasksDone == \A f \in SourceFiles : task[f] = "done"

\* writeGlobalUsings of the handlers variant: lines 57 and 191-208; a read or
\* a write that throws ends the run in the command handler's catch block
AsyncWriteGlobalUsings ==
  /\ op = "handleProjectAsync"
  /\ pc = "tasks"
  /\ AllTasksDone
  /\ IF allUsings = <<>>
     THEN /\ Notify("info:No usings to move.")
          /\ outcome' = "noop"
          /\ UNCHANGED <<gu, wlog, faults>>
     ELSE \E readOk \in BOOLEAN, ok \in BOOLEAN :
            /\ (gu.exists \/ readOk)
            /\ (~readOk => ok)
            /\ Fail(Cost(~readOk) + Cost(~ok))
            /\ IF ~readOk
               THEN /\ Notify("error:Error: read failed")
                    /\ outcome' = "failed"
                    /\ UNCHANGED <<gu, wlog>>
               ELSE /\ wlog' = Append(wlog, Logged("global", GlobalUsingsPath, ok))
                    /\ IF ok
                       THEN /\ gu' = [exists |-> TRUE, text |-> mergeGrouped(gu, allUsings)]
                            /\ Notify("info:Usings moved to GlobalUsings.cs!")
                            /\ outcome' = "Committed"
                       ELSE /\ Notify("error:Error: write failed")
                            /\ outcome' = "failed"
                            /\ UNCHANGED gu
  /\ pc' = "done"
  /\ UNCHANGED <<op, allUsings, filesToModify, backups, idx, task, previewContent,
                 buildOutcome, rbReason, prev, pre, declined, skipped, snapFailed,
                 rbFailed, applyFailedAt>>
  /\ UNCHANGED <<files, csproj, pureVars>>

\* the command previewMoveUsingsToGlobal on a .csproj: previewProjectAsync
\* computes the preview of the project
StartPreviewMoveUsings ==
  /\ CanStart("handleProjectAsync")
  /\ RunReset
  /\ op' = "previewMoveUsingsToGlobal"
  /\ pc' = "previewcmd"
  /\ UNCHANGED <<fsVars, pureVars, faults>>

\* what previewProjectAsync does to the project files: nothing
previewProjectAsync(fileTexts) == fileTexts

\* the rest of the command: the preview document is shown and the prompt
\* answered; "Apply Changes" executes the command moveUsingsToGlobal (a run
\* that CanStart admits); an exception is reported by the catch block
PreviewMoveUsings ==
  /\ op = "previewMoveUsingsToGlobal"
  /\ pc = "previewcmd"
  /\ files' = previewProjectAsync(files)
  /\ \E failed \in BOOLEAN, choice \in {"Apply Changes", "Cancel", "dismissed"} :
       /\ Fail(Cost(failed))
       /\ IF failed
          THEN /\ Notify("error:Error: preview failed")
               /\ outcome' = "failed"
               /\ pc' = "done"
               /\ UNCHANGED <<op, declined>>
          ELSE /\ ui' = Append(ui, "prompt:Preview: Move Usings to GlobalUsings.cs")
               /\ declined' = (choice # "Apply Changes")
               /\ outcome' = IF choice = "Apply Changes"
                             THEN "preview-approved" ELSE "preview-declined"
               /\ pc' = "done"
               /\ UNCHANGED op
  /\ UNCHANGED <<allUsings, filesToModify, backups, idx, task, previewContent,
                 buildOutcome, rbReason, prev, pre, wlog, skipped, snapFailed,
                 rbFailed, applyFailedAt>>
  /\ UNCHANGED <<gu, csproj, pureVars>>

Next ==
  \/ StartHandleProject
  \/ Scan
  \/ ConflictCheck
  \/ Preview
  \/ Backup
  \/ ApplyFile
  \/ ApplyGlobalUsings
  \/ UpdateCsproj
  \/ RunBuild
  \/ Validate
  \/ Rollback
  \/ StartHandleProjectAsync
  \/ \E f \in SourceFiles : AsyncRead(f)
  \/ \E f \in SourceFiles : AsyncWrite(f)
  \/ AsyncWriteGlobalUsings
  \/ StartPreviewMoveUsings
  \/ PreviewMoveUsings

Spec == Init /\ [][Next]_vars

\* the steps of handleProject from Applying on (lines 192-217), but for the
\* write of GlobalUsings.cs
Applying ==
  \/ ApplyFile
  \/ UpdateCsproj
  \/ RunBuild
  \/ Validate
  \/ Rollback

\* ENABLED <<ApplyGlobalUsings>>_vars: the reads and the write may all succeed
GlobalUsingsDue == op = "handleProject" /\ pc = "apply" /\ AllRewritten

\* WF_vars(ApplyGlobalUsings), with its ENABLED written out
ApplyGlobalUsingsFair == []<>(~GlobalUsingsDue) \/ []<><<ApplyGlobalUsings>>_vars

\* Each step of a run from Applying on is the continuation of an awaited
\* promise: the event loop runs it once the promise has settled, so a run that
\* can take such a step does take one.
\* the runs of handleProject alone
NextProject ==
  \/ StartHandleProject
  \/ Scan
  \/ ConflictCheck
  \/ Preview
  \/ Backup
  \/ ApplyFile
  \/ ApplyGlobalUsings
  \/ UpdateCsproj
  \/ RunBuild
  \/ Validate
  \/ Rollback

SpecLive == Init /\ [][NextProject]_vars /\ WF_vars(Applying) /\ ApplyGlobalUsingsFair

(***************************************************************************)
(* handleProject up to ConflictCheck, on projects whose files hold aliases *)
(* and static imports                                                      *)
(***************************************************************************)
ConflictImports ==
  {u_System, u_AliasMath, u_AliasMathTight, u_AliasText, u_StaticSystemMath,
   u_StaticTabSystemMath}

\* a file with one import above the namespace declaration, and one with none
ConflictTexts == {<<u, namespaceLine>> : u \in ConflictImports} \cup {TextNone}

ConflictInit ==
  /\ files \in [SourceFiles -> ConflictTexts]
  /\ gu = AbsentFile
  /\ csproj = ManifestSdk
  /\ pre = [files |-> files, gu |-> gu, csproj |-> csproj]
  /\ faults = 0
  /\ RunIdle
  /\ MergerIdle
  /\ ExtractorIdle
  /\ WalkerIdle
  /\ SolutionIdle
  /\ PatcherIdle
  /\ ResolverIdle
  /\ SharedIdle

ConflictNext ==
  \/ StartHandleProject
  \/ Scan
  \/ ConflictCheck

SpecConflict == ConflictInit /\ [][ConflictNext]_vars

(***************************************************************************)
(* Solution orchestrator of extension.ts: handleSolution                   *)
(*                                                                         *)
(* The member projects have disjoint directories.  files, gu and csproj    *)
(* are the directory of the member the loop is at; sDisk holds the         *)
(* directory of every member as the last run on it left it.                *)
(***************************************************************************)
\* the project manifests a solution can reference
MemberProjects == <<"App", "Lib">>

\* what getCsprojPathsFromSln can return: the references that exist
ResolvedMembers == {SubSeq(MemberProjects, 1, k) : k \in 0..Len(MemberProjects)}

\* a member directory: imports in source file k only (none when k = 0)
MemberDisk(k) ==
  [files |-> [f \in SourceFiles |-> IF f = k THEN TextPlain ELSE TextNone],
   gu |-> AbsentFile,
   csproj |-> ManifestSdk]

MemberDisks == {MemberDisk(k) : k \in 0..NumFiles}

SolutionInit ==
  /\ sMembers \in ResolvedMembers
  /\ sDisk \in [Range(MemberProjects) -> MemberDisks]
  /\ sCur = 0
  /\ sPc = "idle"
  /\ sOutcomes = <<>>
  /\ sUi = <<>>
  /\ sResult = "none"
  /\ files = sDisk[MemberProjects[1]].files
  /\ gu = sDisk[MemberProjects[1]].gu
  /\ csproj = sDisk[MemberProjects[1]].csproj
  /\ pre = [files |-> files, gu |-> gu, csproj |-> csproj]
  /\ faults = 0
  /\ RunIdle
  /\ MergerIdle
  /\ ExtractorIdle
  /\ WalkerIdle
  /\ PatcherIdle
  /\ ResolverIdle
  /\ SharedIdle

\* the directory of member i of the loop becomes the one the run works on
Enter(i) ==
  IF i <= Len(sMembers)
  THEN /\ files' = sDisk'[sMembers[i]].files
       /\ gu' = sDisk'[sMembers[i]].gu
       /\ csproj' = sDisk'[sMembers[i]].csproj
  ELSE UNCHANGED fsVars

\* the command handler of activate invokes handleSolution on a .sln: lines
\* 56-69; a read of the .sln that throws is reported by the handler
StartHandleSolution ==
  /\ sPc = "idle"
  /\ pc = "idle"
  /\ \E readOk \in BOOLEAN :
       /\ Fail(Cost(~readOk))
       /\ IF ~readOk
          THEN /\ sUi' = Append(sUi, "error:Error: read failed")
               /\ sResult' = "error"
               /\ sPc' = "done"
               /\ UNCHANGED sCur
          ELSE IF Len(sMembers) = 0
          THEN /\ sUi' = Append(sUi, "warning:No .csproj files found in solution.")
               /\ sResult' = "no-projects"
               /\ sPc' = "done"
               /\ UNCHANGED sCur
          ELSE /\ sCur' = 1
               /\ sPc' = "loop"
               /\ UNCHANGED <<sUi, sResult>>
  /\ UNCHANGED <<sMembers, sDisk, sOutcomes>>
  /\ UNCHANGED <<fsVars, runVars, mergeVars, extractVars, walkVars, patchVars, resolveVars, sharedVars>>

\* the loop of lines 71-74 calls handleProject on the next member
SolutionCall ==
  /\ sPc = "loop"
  /\ sCur <= Len(sMembers)
  /\ op' = "handleProject"
  /\ pc' = "scan"
  /\ RunReset
  /\ sPc' = "call"
  /\ UNCHANGED <<sMembers, sDisk, sCur, sOutcomes, sUi, sResult>>
  /\ UNCHANGED <<fsVars, mergeVars, extractVars, walkVars, patchVars, resolveVars, sharedVars, faults>>

\* handleProject has thrown: the backup of line 176, the rethrow of line 216
Thrown == outcome = "failed" \/ (outcome = "RolledBack" /\ rbReason = "exception")

\* handleProject returns to the loop, or throws through it to the command
\* handler of activate (lines 41-45), whose notification the run has recorded
SolutionReturn ==
  /\ sPc = "call"
  /\ pc = "done"
  /\ sOutcomes' = Append(sOutcomes, outcome)
  /\ sUi' = sUi \o ui
  /\ sDisk' = [sDisk EXCEPT ![sMembers[sCur]] = Snapshot]
  /\ IF Thrown
     THEN /\ sResult' = "error"
          /\ sPc' = "done"
          /\ UNCHANGED <<sCur, fsVars>>
     ELSE /\ sCur' = sCur + 1
          /\ sPc' = "loop"
          /\ Enter(sCur + 1)
          /\ UNCHANGED sResult
  /\ op' = "none"
  /\ pc' = "idle"
  /\ allUsings' = <<>>
  /\ filesToModify' = <<>>
  /\ idx' = 0
  /\ previewContent' = EmptyText
  /\ buildOutcome' = NoBuild
  /\ rbReason' = "none"
  /\ ui' = <<>>
  /\ outcome' = "none"
  /\ prev' = NoRun
  /\ wlog' = <<>>
  /\ declined' = FALSE
  /\ skipped' = {}
  /\ snapFailed' = FALSE
  /\ rbFailed' = {}
  /\ applyFailedAt' = 0
  /\ UNCHANGED <<sMembers, backups, task, pre>>
  /\ UNCHANGED <<mergeVars, extractVars, walkVars, patchVars, resolveVars, sharedVars, faults>>

\* after the loop: lines 76-78
SolutionDone ==
  /\ sPc = "loop"
  /\ sCur > Len(sMembers)
  /\ sUi' = Append(sUi, "info:Usings moved to GlobalUsings.cs for all projects in solution!")
  /\ sResult' = "success"
  /\ sPc' = "done"
  /\ UNCHANGED <<sMembers, sDisk, sCur, sOutcomes>>
  /\ UNCHANGED <<fsVars, runVars, mergeVars, extractVars, walkVars, patchVars, resolveVars, sharedVars, faults>>

SolutionNext ==
  \/ StartHandleSolution
  \/ SolutionCall
  \/ Scan
  \/ ConflictCheck
  \/ Preview
  \/ Backup
  \/ ApplyFile
  \/ ApplyGlobalUsings
  \/ UpdateCsproj
  \/ RunBuild
  \/ Validate
  \/ Rollback
  \/ SolutionReturn
  \/ SolutionDone

SpecSolution == SolutionInit /\ [][SolutionNext]_vars

(***************************************************************************)
(* The manifest patcher alone: manifests drawn from bounded sets           *)
(***************************************************************************)
\* what stands between <Project> and the end of a manifest
BodyTokens ==
  {"<PropertyGroup/>", "<ItemGroup>", "<ItemGroup Condition=\"x\">", "</ItemGroup>",
   "<Compile Include=\"A.cs\" />", CompileRef, RemoveRef}

\* the manifests with up to MaxTokens tokens in the body; one that was cut
\* short has no </Project>
PatcherManifests ==
  {<<"<Project>">> \o body \o tail :
     body \in UNION {[1..k -> BodyTokens] : k \in 0..MaxTokens},
     tail \in {<<"</Project>">>, <<>>}}

PatchInit ==
  /\ pText \in PatcherManifests
  /\ pCalls = 0
  /\ pWrote = 0
  /\ pSettled = FALSE
  /\ OrchestratorIdle
  /\ MergerIdle
  /\ ExtractorIdle
  /\ WalkerIdle
  /\ SolutionIdle
  /\ ResolverIdle
  /\ SharedIdle

\* one call of updateCsprojFile on the manifest: lines 581-629.  A read or a
\* write that throws is caught at line 625 and leaves the manifest as it is
PatchCall ==
  /\ pCalls < MaxCalls
  /\ pCalls' = pCalls + 1
  /\ \E readOk \in BOOLEAN, ok \in BOOLEAN :
       /\ (readOk \/ ok)
       /\ ((readOk /\ patchedCsproj(pText) = pText) => ok)
       /\ Fail(Cost(~readOk) + Cost(~ok))
       /\ pText' = IF readOk /\ ok THEN patchedCsproj(pText) ELSE pText
       /\ pWrote' = pWrote + Cost(readOk /\ ok /\ patchedCsproj(pText) # pText)
       /\ pSettled' = (pSettled \/ (readOk /\ ok))
  /\ UNCHANGED <<fsVars, runVars, mergeVars, extractVars, walkVars, slnVars, resolveVars, sharedVars>>

PatchNext == PatchCall

SpecPatch == PatchInit /\ [][PatchNext]_vars

(***************************************************************************)
(* The merger as a pure function: inputs drawn from bounded sets           *)
(***************************************************************************)
\* import statements the extractor can hand to the merger
ImportUniverse ==
  {u_System, u_MyAppServices, u_MicrosoftWin, u_SystemMath,
   u_StaticSystemMath, u_AliasMath, u_TabSystem}

ExistingFiles ==
  {AbsentFile,
   [exists |-> TRUE, text |-> EmptyText],
   [exists |-> TRUE, text |-> EditedGlobalText]}

\* the sequences without repetition over a set, up to a length
DistinctSeqs(S, n) ==
  UNION {{q \in [1..k -> S] : \A i, j \in 1..k : i # j => q[i] # q[j]} : k \in 0..n}

\* the rearrangements of a sequence
Occurrences(q, x) == Cardinality({i \in 1..Len(q) : q[i] = x})

Rearrangements(q) ==
  {p \in [1..Len(q) -> Range(q)] :
     \A x \in Range(q) : Occurrences(p, x) = Occurrences(q, x)}

merge(variant, g, usingsSet) ==
  IF variant = "grouped" THEN mergeGrouped(g, usingsSet) ELSE mergeSorted(g, usingsSet)

MergeInit ==
  /\ mGu \in ExistingFiles
  /\ mNew \in DistinctSeqs(ImportUniverse, MaxNew)
  /\ mVariant = "none"
  /\ mOut = EmptyText
  /\ mPerm = EmptyText
  /\ mAgain = EmptyText
  /\ mDone = {}
  /\ OrchestratorIdle
  /\ ExtractorIdle
  /\ WalkerIdle
  /\ SolutionIdle
  /\ PatcherIdle
  /\ ResolverIdle
  /\ SharedIdle

\* writeGlobalUsings of the handlers variant, up to the write
MergeGroupedStep ==
  /\ mVariant = "none"
  /\ mNew # <<>>
  /\ mVariant' = "grouped"
  /\ mOut' = mergeGrouped(mGu, mNew)
  /\ UNCHANGED <<mGu, mNew, mPerm, mAgain, mDone>>
  /\ UNCHANGED outsideMerge

\* writeGlobalUsings of extension.ts, up to the write
MergeSortedStep ==
  /\ mVariant = "none"
  /\ mNew # <<>>
  /\ mVariant' = "sorted"
  /\ mOut' = mergeSorted(mGu, mNew)
  /\ UNCHANGED <<mGu, mNew, mPerm, mAgain, mDone>>
  /\ UNCHANGED outsideMerge

\* the same merge, the same lines and imports presented in another order
MergePermutedStep ==
  /\ mVariant # "none"
  /\ mDone = {}
  /\ \E t \in Rearrangements(mGu.text), q \in Rearrangements(mNew) :
       mPerm' = merge(mVariant, [exists |-> mGu.exists, text |-> t], q)
  /\ mDone' = mDone \cup {"perm"}
  /\ UNCHANGED <<mGu, mNew, mVariant, mOut, mAgain>>
  /\ UNCHANGED outsideMerge

\* the written content read back and merged with no new import
RemergeStep ==
  /\ mVariant # "none"
  /\ "again" \notin mDone
  /\ mAgain' = merge(mVariant, [exists |-> TRUE, text |-> mOut], <<>>)
  /\ mDone' = mDone \cup {"again"}
  /\ UNCHANGED <<mGu, mNew, mVariant, mOut, mPerm>>
  /\ UNCHANGED outsideMerge

MergeNext ==
  \/ MergeGroupedStep
  \/ MergeSortedStep
  \/ MergePermutedStep
  \/ RemergeStep

SpecMerge == MergeInit /\ [][MergeNext]_vars

(***************************************************************************)
(* The extractor as a pure function: inputs drawn from bounded sets        *)
(***************************************************************************)
\* the lines of the files handed to the extractor: a blank line, a line of
\* white space, an import, an indented import, a comment, a namespace
\* declaration
SourceLines ==
  {<<>>, sp, u_System, sp \o <<TAB>> \o u_SystemMath, <<"/", "/", " ", "x">>,
   namespaceLine}

\* the file contents of up to MaxLines lines
ExtractorTexts == UNION {[1..k -> SourceLines] : k \in 1..MaxLines}

extract(variant, content) ==
  IF variant = "handlers" THEN extractUsingsHandlers(content) ELSE extractUsings(content)

ExtractInit ==
  /\ xText \in ExtractorTexts
  /\ xVariant = "none"
  /\ xOut = NoExtract
  /\ xAgain = NoExtract
  /\ xDone = FALSE
  /\ OrchestratorIdle
  /\ MergerIdle
  /\ WalkerIdle
  /\ SolutionIdle
  /\ PatcherIdle
  /\ ResolverIdle
  /\ SharedIdle

\* extractUsings of extension.ts on the content
ExtractStep ==
  /\ xVariant = "none"
  /\ xVariant' = "extension"
  /\ xOut' = extractUsings(xText)
  /\ UNCHANGED <<xText, xAgain, xDone>>
  /\ UNCHANGED outsideExtract

\* extractUsings of the handlers variant on the content
ExtractHandlersStep ==
  /\ xVariant = "none"
  /\ xVariant' = "handlers"
  /\ xOut' = extractUsingsHandlers(xText)
  /\ UNCHANGED <<xText, xAgain, xDone>>
  /\ UNCHANGED outsideExtract

\* the same extractUsings on the updatedContent it returned
ReextractStep ==
  /\ xVariant # "none"
  /\ ~xDone
  /\ xAgain' = extract(xVariant, xOut.updatedContent)
  /\ xDone' = TRUE
  /\ UNCHANGED <<xText, xVariant, xOut>>
  /\ UNCHANGED outsideExtract

ExtractNext ==
  \/ ExtractStep
  \/ ExtractHandlersStep
  \/ ReextractStep

SpecExtract == ExtractInit /\ [][ExtractNext]_vars

(***************************************************************************)
(* The walker as a pure function: inputs drawn from bounded sets           *)
(***************************************************************************)
DirNames == {n_src, n_bin, n_obj, n_vs, n_git, n_Properties}

FileNames == {f_A, globalUsingsFileName, f_MyGlobalUsings, f_notes}

\* the paths of the directories of depth up to d below a directory
RECURSIVE DirPaths(_)
DirPaths(d) ==
  IF d = 0 THEN {<<>>}
  ELSE DirPaths(d - 1) \cup {Append(p, n) : p \in DirPaths(d - 1), n \in DirNames}

\* the paths of the files with up to MaxDepth directories above them
FilePaths == {Append(p, n) : p \in DirPaths(MaxDepth), n \in FileNames}

\* a second file of the tree, beside or near the first
SiblingPaths == {<<f_A>>, <<n_src, f_A>>, <<n_bin, f_A>>}

\* the directories the walk starts from: the name of the root is not looked at
WalkRoots == {<<n_src>>, <<n_vs>>}

\* the values of the setting skippedDirectories
SkippedSettings == {DefaultSkippedDirectories, <<>>}

WalkInit ==
  /\ wRoot \in WalkRoots
  /\ \E p \in FilePaths, q \in SiblingPaths : wTree = {wRoot \o p, wRoot \o q}
  /\ wDenied \in {{}, {Append(wRoot, n_src)}}
  /\ wSkippedDirs \in SkippedSettings
  /\ wVariant = "none"
  /\ wOut = NoWalk
  /\ OrchestratorIdle
  /\ MergerIdle
  /\ ExtractorIdle
  /\ SolutionIdle
  /\ PatcherIdle
  /\ ResolverIdle
  /\ SharedIdle

\* findCsFilesRecursively of extension.ts on the root
WalkStep ==
  /\ wVariant = "none"
  /\ wVariant' = "extension"
  /\ wOut' = findCsFilesRecursively(wTree, wDenied, wRoot)
  /\ UNCHANGED <<wTree, wRoot, wDenied, wSkippedDirs>>
  /\ UNCHANGED outsideWalk

\* findCsFilesRecursively of the handlers variant on the root
WalkHandlersStep ==
  /\ wVariant = "none"
  /\ wVariant' = "handlers"
  /\ wOut' = findCsFilesRecursivelyHandlers(wTree, wDenied, wSkippedDirs, wRoot)
  /\ UNCHANGED <<wTree, wRoot, wDenied, wSkippedDirs>>
  /\ UNCHANGED outsideWalk

WalkNext ==
  \/ WalkStep
  \/ WalkHandlersStep

SpecWalk == WalkInit /\ [][WalkNext]_vars

(***************************************************************************)
(* The manifest resolver as a pure function                                *)
(***************************************************************************)
\* the directory of the aggregate manifest
SlnDir == <<n_sln>>

\* relative paths an entry can hold
r_A == n_A \o <<"/">> \o f_Acsproj

r_ABackslash == n_A \o <<"\\">> \o f_Acsproj

r_B == <<".", "/">> \o n_B \o <<"/">> \o f_Bcsproj

r_Up == <<".", ".", "/">> \o n_A \o <<"/">> \o f_Acsproj

r_W == <<"W", "/">> \o f_Wvbproj

\* Project entries with a path, a Project entry without one, and an entry
\* that is no Project entry
ResolverEntries ==
  {[project |-> TRUE, path |-> p] : p \in {r_A, r_ABackslash, r_B, r_Up, r_W, <<>>}}
    \cup {[project |-> FALSE, path |-> r_A]}

\* the files that can be on disk
ResolverFiles ==
  {<<n_sln, n_A, f_Acsproj>>, <<n_sln, n_B, f_Bcsproj>>, <<n_A, f_Acsproj>>,
   <<n_sln, <<"W">>, f_Wvbproj>>}

ResolverManifests ==
  UNION {[1..n -> ResolverEntries] : n \in 0..MaxRefs}

ResolveInit ==
  /\ rEntries \in ResolverManifests
  /\ rDisk \in SUBSET ResolverFiles
  /\ rSep \in {"/", "\\"}
  /\ rVariant = "none"
  /\ rOut = <<>>
  /\ OrchestratorIdle
  /\ MergerIdle
  /\ ExtractorIdle
  /\ WalkerIdle
  /\ SolutionIdle
  /\ PatcherIdle
  /\ SharedIdle

outsideResolve == <<orchVars, mergeVars, extractVars, walkVars, slnVars, patchVars, sharedVars>>

\* the resolver of extension.ts on a .sln; a read that throws is rethrown
ResolveSln ==
  /\ rVariant = "none"
  /\ \E readOk \in BOOLEAN :
       IF readOk
       THEN /\ rVariant' = "sln"
            /\ rOut' = getCsprojPathsFromSln(rEntries, rDisk, rSep, SlnDir, <<>>)
       ELSE /\ rVariant' = "threw"
            /\ UNCHANGED rOut
  /\ UNCHANGED <<rEntries, rDisk, rSep, outsideResolve>>

\* the resolver of the handlers on a .sln
ResolveSlnHandlers ==
  /\ rVariant = "none"
  /\ \E readOk \in BOOLEAN :
       IF readOk
       THEN /\ rVariant' = "slnHandlers"
            /\ rOut' = getCsprojPathsFromSlnHandlers(rEntries, rDisk, rSep, SlnDir, <<>>)
       ELSE /\ rVariant' = "threw"
            /\ UNCHANGED rOut
  /\ UNCHANGED <<rEntries, rDisk, rSep, outsideResolve>>

\* the resolver of the handlers on a .slnx
ResolveSlnx ==
  /\ rVariant = "none"
  /\ \E readOk \in BOOLEAN :
       IF readOk
       THEN /\ rVariant' = "slnx"
            /\ rOut' = parseSlnxFileAsync(rEntries, rDisk, rSep, SlnDir, <<>>)
       ELSE /\ rVariant' = "threw"
            /\ UNCHANGED rOut
  /\ UNCHANGED <<rEntries, rDisk, rSep, outsideResolve>>

ResolveNext == ResolveSln \/ ResolveSlnHandlers \/ ResolveSlnx

SpecResolve == ResolveInit /\ [][ResolveNext]_vars

(***************************************************************************)
(* Solution orchestrator of the handlers: handleSolutionAsync              *)
(*                                                                         *)
(* The runs of handleProjectAsync on the members are started together by   *)
(* Promise.all and interleave at every await.  The directory of a member   *)
(* may lie apart from, inside, or be the directory of another member.      *)
(***************************************************************************)
\* the two members of csprojPaths
MemberRuns == {1, 2}

\* the source files of the solution
SolutionTree == {<<n_src, f_A>>, <<n_src, n_src, f_A>>, <<n_Properties, f_A>>}

\* the directories of the project manifests
MemberDirs == {<<n_src>>, <<n_src, n_src>>, <<n_Properties>>}

\* csFiles of a run: findCsFilesRecursively(projectDir)
csFiles(dir) ==
  Range(findCsFilesRecursivelyHandlers(SolutionTree, {}, DefaultSkippedDirectories,
                                       dir).results)

SharedInit ==
  /\ cDirs \in {<<a, b>> : a \in {<<n_src>>}, b \in MemberDirs}
  /\ cText \in [SolutionTree -> {TextPlain, TextHeader, TextNone}]
  /\ cTask = [m \in MemberRuns |-> [p \in SolutionTree |-> "idle"]]
  /\ cUpdated = [m \in MemberRuns |-> [p \in SolutionTree |-> EmptyText]]
  /\ cUsings = [m \in MemberRuns |-> <<>>]
  /\ cGu = [d \in MemberDirs |-> AbsentFile]
  /\ cExisting = [m \in MemberRuns |-> AbsentFile]
  /\ cPc = [m \in MemberRuns |-> "idle"]
  /\ cPre = cText
  /\ OrchestratorIdle
  /\ MergerIdle
  /\ ExtractorIdle
  /\ WalkerIdle
  /\ SolutionIdle
  /\ PatcherIdle
  /\ ResolverIdle

outsideShared ==
  <<orchVars, mergeVars, extractVars, walkVars, slnVars, patchVars, resolveVars>>

\* Promise.all(csprojPaths.map(handleProjectAsync)): part_002 lines 19 and
\* 39-44; every run walks its directory and starts a task for each file
StartSolutionAsync ==
  /\ \A m \in MemberRuns : cPc[m] = "idle"
  /\ cPc' = [m \in MemberRuns |-> "tasks"]
  /\ cTask' = [m \in MemberRuns |->
                 [p \in SolutionTree |-> IF p \in csFiles(cDirs[m]) THEN "none" ELSE "out"]]
  /\ UNCHANGED <<cDirs, cText, cUpdated, cUsings, cGu, cExisting, cPre, outsideShared>>

\* a task reads its file and extracts: lines 46-48
SharedRead(m, p) ==
  /\ cPc[m] = "tasks"
  /\ cTask[m][p] = "none"
  /\ LET ex == extractedHandlersFrom(cText[p])
     IN /\ cUsings' = [cUsings EXCEPT ![m] = SetAddAll(cUsings[m], ex.usings)]
        /\ cUpdated' = [cUpdated EXCEPT ![m][p] = ex.updatedContent]
        /\ cTask' = [cTask EXCEPT ![m][p] = IF ex.usings = <<>> THEN "clean" ELSE "write"]
  /\ UNCHANGED <<cDirs, cText, cGu, cExisting, cPc, cPre, outsideShared>>

\* the task writes the updatedContent it computed: lines 49-51
SharedWrite(m, p) ==
  /\ cPc[m] = "tasks"
  /\ cTask[m][p] = "write"
  /\ cText' = [cText EXCEPT ![p] = cUpdated[m][p]]
  /\ cTask' = [cTask EXCEPT ![m][p] = "written"]
  /\ UNCHANGED <<cDirs, cUpdated, cUsings, cGu, cExisting, cPc, cPre, outsideShared>>

\* every task of the run has settled
TasksSettled(m) == \A p \in SolutionTree : cTask[m][p] \in {"out", "clean", "written"}

\* writeGlobalUsings up to the read of the existing file: lines 191-202
SharedMergeRead(m) ==
  /\ cPc[m] = "tasks"
  /\ TasksSettled(m)
  /\ IF cUsings[m] = <<>>
     THEN /\ cPc' = [cPc EXCEPT ![m] = "done"]
          /\ UNCHANGED cExisting
     ELSE /\ cExisting' = [cExisting EXCEPT ![m] = cGu[cDirs[m]]]
          /\ cPc' = [cPc EXCEPT ![m] = "merge"]
  /\ UNCHANGED <<cDirs, cText, cTask, cUpdated, cUsings, cGu, cPre, outsideShared>>

\* writeGlobalUsings from there on: lines 203-207
SharedMergeWrite(m) ==
  /\ cPc[m] = "merge"
  /\ cGu' = [cGu EXCEPT ![cDirs[m]] =
               [exists |-> TRUE, text |-> mergeGrouped(cExisting[m], cUsings[m])]]
  /\ cPc' = [cPc EXCEPT ![m] = "done"]
  /\ UNCHANGED <<cDirs, cText, cTask, cUpdated, cUsings, cExisting, cPre, outsideShared>>

SharedNext ==
  \/ StartSolutionAsync
  \/ \E m \in MemberRuns, p \in SolutionTree : SharedRead(m, p)
  \/ \E m \in MemberRuns, p \in SolutionTree : SharedWrite(m, p)
  \/ \E m \in MemberRuns : SharedMergeRead(m)
  \/ \E m \in MemberRuns : SharedMergeWrite(m)

SpecShared == SharedInit /\ [][SharedNext]_vars

(***************************************************************************)
(* Claims about the project run                                            *)
(***************************************************************************)
\* the run of handleProject has ended
Ended == op = "handleProject" /\ pc = "done"

\* the text of a path of the project: GlobalUsings.cs or a source file
TextAt(path) == IF path = GlobalUsingsPath THEN gu.text ELSE files[path]

\* a write failed during Applying after some, not all, source files were rewritten
FailedMidBatch == Ended /\ applyFailedAt > 1

\* C1 (as stated): if a write fails during Applying after some but not all of
\* the source files have been rewritten, then at the end of the run every
\* source file that was to be rewritten has its pre-run text and
\* GlobalUsings.cs has its pre-run text, or is still absent.
C1_AllRestored ==
  FailedMidBatch =>
    /\ \A i \in 1..Len(filesToModify) :
         files[filesToModify[i].filePath] = pre.files[filesToModify[i].filePath]
    /\ gu = pre.gu

\* C1 (amended): in that case every source file that was to be rewritten has
\* its pre-run text unless the write that restores it failed, and then it has
\* the rewritten text the run gave it; GlobalUsings.cs has its pre-run text,
\* or is still absent.
C1_RestoredUnlessRestoreFails ==
  FailedMidBatch =>
    /\ \A i \in 1..Len(filesToModify) :
         LET path == filesToModify[i].filePath
         IN \/ files[path] = pre.files[path]
            \/ /\ i \in rbFailed
               /\ i < applyFailedAt
               /\ files[path] = filesToModify[i].updatedContent
    /\ gu = pre.gu

\* C1 witness: the second rewrite failed and the rollback restored every file
\* of a project that had a GlobalUsings.cs
C1_Witness ==
  /\ FailedMidBatch
  /\ outcome = "RolledBack"
  /\ rbFailed = {}
  /\ pre.gu.exists
  /\ files = pre.files

\* the build reports failure: the subprocess fails or times out, or its output
\* holds the failure marker and not the success marker
ReportsFailure(o) ==
  \/ o.kind \in {"error", "timeout"}
  \/ o.kind = "exit0" /\ o.failed /\ ~o.succeeded

ValidationFailed == Ended /\ buildOutcome # NoBuild /\ ReportsFailure(buildOutcome)

FailureReported ==
  /\ ui # <<>>
  /\ ui[Len(ui)] = "error:Build failed after moving usings. Changes have been rolled back."

\* C2 (as stated): if build validation reports failure, the run restores every
\* backed-up file to its backed-up text, reports failure and ends RolledBack,
\* never Committed.
C2_RollbackRestoresAll ==
  ValidationFailed =>
    /\ outcome = "RolledBack"
    /\ FailureReported
    /\ \A i \in 1..Len(backups) : TextAt(backups[i].filePath) = backups[i].originalContent

\* C2 (amended): if build validation reports failure, the run writes back every
\* backed-up file; each one whose restoring write succeeds has its backed-up
\* text; the run reports failure and ends RolledBack, never Committed.
C2_RollbackBestEffort ==
  ValidationFailed =>
    /\ outcome = "RolledBack"
    /\ FailureReported
    /\ \A i \in 1..Len(backups) :
         /\ \E k \in 1..Len(wlog) :
              wlog[k].kind = "restore" /\ wlog[k].path = backups[i].filePath
         /\ i \notin rbFailed => TextAt(backups[i].filePath) = backups[i].originalContent

\* C2 witness: the build printed the failure marker and the rollback restored
\* the rewritten files and the GlobalUsings.cs that existed before
C2_Witness ==
  /\ ValidationFailed
  /\ buildOutcome.kind = "exit0"
  /\ outcome = "RolledBack"
  /\ rbFailed = {}
  /\ \E i \in 1..Len(backups) : backups[i].filePath = GlobalUsingsPath
  /\ files = pre.files
  /\ gu = pre.gu

\* C3: if the user declines at ConflictCheck or at Preview, no source file, nor
\* GlobalUsings.cs, nor the manifest has been written: every file is as it
\* was before the run.
C3_DeclineWritesNothing ==
  declined =>
    /\ pc = "done"
    /\ wlog = <<>>
    /\ files = pre.files
    /\ gu = pre.gu
    /\ csproj = pre.csproj

\* C3 witness: the user dismissed the prompt of the preview of a project with
\* imports to move
C3_Witness ==
  /\ Ended
  /\ declined
  /\ outcome = "preview-declined"
  /\ filesToModify # <<>>

\* the positions of the writes of a kind in the write log
Writes(kind) == {k \in 1..Len(wlog) : wlog[k].kind = kind}

\* C4: GlobalUsings.cs is written only after every per-file rewrite of the run
\* has completed, and the manifest is patched only after GlobalUsings.cs was
\* written, also when the per-file rewrites run concurrently.
C4_FilesThenGlobalThenManifest ==
  /\ \A g \in Writes("global") :
       /\ \A r \in Writes("rewrite") : r < g
       /\ op = "handleProjectAsync" => \A f \in SourceFiles : task[f] = "done"
       /\ op = "handleProject" =>
            \A i \in 1..Len(filesToModify) :
              \E r \in Writes("rewrite") :
                r < g /\ wlog[r].path = filesToModify[i].filePath /\ wlog[r].ok
  /\ \A m \in Writes("manifest") :
       \E g \in Writes("global") : g < m /\ wlog[g].ok

\* C4 witness: two concurrent tasks rewrote their files, the second file
\* first, and then GlobalUsings.cs was written
C4_Witness ==
  /\ op = "handleProjectAsync"
  /\ Len(wlog) = 3
  /\ wlog[1] = Logged("rewrite", 2, TRUE)
  /\ wlog[2] = Logged("rewrite", 1, TRUE)
  /\ wlog[3] = Logged("global", GlobalUsingsPath, TRUE)

\* the original text of a path was snapshotted
Snapshotted(path, text) ==
  \E j \in 1..Len(backups) : backups[j] = [filePath |-> path, originalContent |-> text]

\* C5: in the run of handleProject nothing is written until the original text
\* of every file about to be rewritten, and of GlobalUsings.cs if it exists,
\* has been snapshotted; a failure while taking a snapshot ends the run with
\* no file written.
C5_SnapshotBeforeAnyWrite ==
  op = "handleProject" =>
    /\ wlog # <<>> =>
         /\ \A i \in 1..Len(filesToModify) :
              Snapshotted(filesToModify[i].filePath, pre.files[filesToModify[i].filePath])
         /\ pre.gu.exists => Snapshotted(GlobalUsingsPath, pre.gu.text)
    /\ snapFailed => wlog = <<>>

\* C6: a run that follows a run that ended Committed, every source file being
\* read in both, finds no import, reports that there is nothing to move and
\* leaves GlobalUsings.cs and every source file unchanged.
C6_SecondRunFindsNothing ==
  (pc = "done" /\ prev.committed /\ prev.skipped = {} /\ skipped = {}
     /\ op \in {"handleProject", "handleProjectAsync"}) =>
    /\ outcome = "noop"
    /\ allUsings = <<>>
    /\ ui # <<>>
    /\ files = pre.files
    /\ gu = pre.gu

(***************************************************************************)
(* Claims about the merger                                                 *)
(***************************************************************************)
NonBlankLines(text) ==
  SelectSeqBy(text, <<>> \o [i \in 1..Len(text) |-> text[i] # <<>>])

NoRepeat(q) == \A i, j \in 1..Len(q) : i # j => q[i] # q[j]

\* the entries a merge has to produce: the global-marked lines of the existing
\* file and `global <import>` for each new import
ExpectedEntries(g, usingsSet) ==
  (IF g.exists
   THEN {Trim(g.text[i]) : i \in {k \in 1..Len(g.text) :
                                    StartsWith(Trim(g.text[k]), GlobalUsingPrefix)}}
   ELSE {})
  \cup {Global(usingsSet[i]) : i \in 1..Len(usingsSet)}

C8_OrderIndependent ==
  "perm" \in mDone => mPerm = mOut

WellGrouped(out) ==
  LET n == Len(out)
  IN /\ n >= 2
     /\ out[n] = <<>>
     /\ out[n - 1] # <<>>
     /\ out[1] # <<>>
     /\ \A i \in 1..(n - 2) :
          /\ (out[i] # <<>> /\ out[i + 1] # <<>>) => groupOf(out[i]) = groupOf(out[i + 1])
          /\ (out[i] # <<>> /\ out[i + 1] = <<>>) =>
               /\ out[i + 2] # <<>>
               /\ groupOf(out[i]) < groupOf(out[i + 2])

\* C10: the merged content lists the System group, then the Microsoft group,
\* then the others, one blank line between non-empty groups, no blank line
\* elsewhere, one trailing newline.
C10_GroupLayout ==
  mVariant # "none" => WellGrouped(mOut)

(***************************************************************************)
(* Claims about the extractor                                              *)
(***************************************************************************)
\* the import lines among SourceLines, and what the extractor records for them
ImportLines == {u_System, sp \o <<TAB>> \o u_SystemMath}

IsBlankLine(l) == \A i \in 1..Len(l) : l[i] \in {" ", TAB}

\* index of the first namespace declaration of a text, Len + 1 when none
FirstNamespace(text) ==
  First({i \in 1..Len(text) : text[i] = namespaceLine}, Len(text) + 1)

\* the import lines of a text before line n, trimmed, in file order
ImportsBefore(text, n) ==
  SelectSeqBy(TrimAll(text),
              <<>> \o [i \in 1..Len(text) |-> i < n /\ text[i] \in ImportLines])

\* C11: extracting from the remainder that an extraction returned yields no
\* import.
C11_ReextractFindsNothing ==
  xDone => xAgain.usings = <<>>

\* C11 witness: a second extraction from a remainder left by an extraction
\* that took imports and left a line before the namespace declaration
C11_Witness ==
  /\ xDone
  /\ xOut.usings # <<>>
  /\ FirstNamespace(xOut.updatedContent) \in 2..Len(xOut.updatedContent)

\* C12: for a file whose lines before the first namespace declaration are
\* only import lines and blank lines, the extractor returns the import lines
\* in file order and a remainder that starts with the namespace declaration.
C12_ImportsThenNamespaceFirst ==
  (/\ xVariant # "none"
   /\ FirstNamespace(xText) <= Len(xText)
   /\ \A i \in 1..(FirstNamespace(xText) - 1) :
        xText[i] \in ImportLines \/ IsBlankLine(xText[i])) =>
    /\ xOut.usings = ImportsBefore(xText, FirstNamespace(xText))
    /\ xOut.updatedContent[1] = namespaceLine

\* C12 witness: two imports, a blank line, the namespace declaration
C12_Witness ==
  /\ xVariant # "none"
  /\ xText = <<u_System, sp \o <<TAB>> \o u_SystemMath, <<>>, namespaceLine>>
  /\ xOut.usings = <<u_System, u_SystemMath>>
  /\ xOut.updatedContent = <<namespaceLine>>

\* C13: the lines from the first namespace declaration on are the end of the
\* remainder, unchanged and in order, and none of them is recorded as an
\* import.
C13_BodyUntouched ==
  xVariant # "none" =>
    LET N == FirstNamespace(xText)
        body == SubSeq(xText, N, Len(xText))
        out == xOut.updatedContent
    IN /\ Len(out) >= Len(body)
       /\ SubSeq(out, Len(out) - Len(body) + 1, Len(out)) = body
       /\ xOut.usings = ImportsBefore(xText, N)

\* C13 witness: an import and a blank line stand after the namespace
\* declaration, an import before it
C13_Witness ==
  /\ xVariant # "none"
  /\ xText = <<u_System, namespaceLine, <<>>, u_System>>
  /\ xOut.usings = <<u_System>>
  /\ xOut.updatedContent = <<namespaceLine, <<>>, u_System>>

(***************************************************************************)
(* Claims about the walker                                                 *)
(***************************************************************************)
\* the names the walk that produced wOut prunes besides the dot-names
SkipSet ==
  IF wVariant = "handlers" THEN Range(wSkippedDirs) ELSE {n_bin, n_obj, n_vs}

PrunedName(name) == name \in SkipSet \/ name[1] = "."

\* the directory names of a path strictly below the root of the walk
\* (last: the position of the last of them)
PrunedBelowRoot(p, last) == \E k \in (Len(wRoot) + 1)..last : PrunedName(p[k])

\* C14: the walker never returns a path that has, below the root of the walk,
\* a directory whose name is in the skip set or starts with a dot, and it never
\* lists such a directory
C14_PrunedNeverYielded ==
  wVariant # "none" =>
    /\ \A i \in 1..Len(wOut.results) :
         ~PrunedBelowRoot(wOut.results[i], Len(wOut.results[i]) - 1)
    /\ \A d \in wOut.read : ~PrunedBelowRoot(d, Len(d))

\* a walk over a tree with a source file under src/.git and one beside it
\* returned the second only
C14_Witness ==
  /\ wVariant # "none"
  /\ wTree = {wRoot \o <<n_src, n_git, f_A>>, wRoot \o <<n_src, f_A>>}
  /\ wDenied = {}
  /\ wOut.results = <<wRoot \o <<n_src, f_A>>>>

(***************************************************************************)
(* Claims about the solution run                                           *)
(***************************************************************************)
\* handleSolution has ended after it entered its loop over the members
SolutionEnded == sPc = "done" /\ sCur >= 1

\* C15: when a solution run ends, every resolved member project has been
\* attempted, whatever the runs of the members before it did (a rollback
\* after a failed validation, an exception during Applying): the result of
\* the solution is reported only after all of them
C15_EveryMemberAttempted ==
  SolutionEnded => Len(sOutcomes) = Len(sMembers)

\* the paths the current run has backed up, or has found absent
OwnBackedUp ==
  {filesToModify[j].filePath : j \in 1..Len(filesToModify)} \cup {GlobalUsingsPath}

\* no write of a rollback goes to a path the run has not backed up itself,
\* and the directory of a member that ended Committed stays as it is
RollbackWritesOwn ==
  /\ \A i \in 1..Len(wlog') :
       wlog'[i].kind = "restore" => wlog'[i].path \in OwnBackedUp'
  /\ \A k \in 1..Len(sOutcomes) :
       sOutcomes[k] = "Committed" => sDisk'[sMembers[k]] = sDisk[sMembers[k]]

\* C16: over members with disjoint directories, the rollback of a project
\* writes only files its own run has backed up; the source files, the
\* GlobalUsings.cs and the manifest of a member that ended Committed are
\* never modified by the rollback of another member
C16_RollbackWritesOwnBackups == [][RollbackWritesOwn]_vars

\* the first member ended Committed with imports moved out of its file 1, the
\* second has rolled back after a failed build and has restored its file 2;
\* the directory of the first is as it was committed
C16_Witness ==
  /\ sPc = "done"
  /\ sOutcomes = <<"Committed", "RolledBack">>
  /\ sDisk["App"].gu.exists
  /\ sDisk["App"].files[1] = extractUsings(TextPlain).updatedContent
  /\ sDisk["Lib"].files = MemberDisk(2).files
  /\ \E i \in 1..Len(sUi) :
       sUi[i] = "error:Build failed after moving usings. Changes have been rolled back."

(***************************************************************************)
(* Claims about what a project run shows and when it ends                  *)
(***************************************************************************)
\* the modal questions of a run: they ask, they do not tell an outcome
Prompts ==
  {"prompt:Potential conflicts detected.",
   "prompt:Preview the changes and confirm to proceed.",
   "prompt:Could not show preview.",
   "prompt:Preview: Move Usings to GlobalUsings.cs"}

\* the notifications among the entries of ui
Notifications == {i \in 1..Len(ui) : ui[i] \notin Prompts}

\* the outcomes in which a run of handleProject can end
TerminalOutcomes ==
  {"noop", "Committed", "conflict-declined", "preview-declined", "RolledBack"}

\* C17: a run of handleProject that has ended as a no-op, with success,
\* declined at the conflict prompt, declined at the preview or rolled back has
\* shown exactly one notification
C17_ExactlyOneNotification ==
  (op = "handleProject" /\ pc = "done" /\ outcome \in TerminalOutcomes)
    => Cardinality(Notifications) = 1

(***************************************************************************)
(* Claims about the manifest patcher                                       *)
(***************************************************************************)
\* C18: the manifest patcher is idempotent: once a call of updateCsprojFile
\* has ended (its read and its write, if any, done), no further call writes
\* the manifest or changes its text; over any sequence of calls the manifest
\* is written at most once
C18_PatchOnce ==
  [](pWrote <= 1) /\ [][pSettled => (pText' = pText /\ pWrote' = pWrote)]_vars

\* a manifest without item group has been given one with the reference by the
\* first call, and a second call has left it as it was
C18_Witness ==
  /\ pCalls = 2
  /\ pWrote = 1
  /\ faults = 0
  /\ pText = <<"<Project>", "<PropertyGroup/>", "<ItemGroup>", CompileRef,
               "</ItemGroup>", "</Project>">>

\* C19: a run whose scan has found no import in any file ends as a no-op: it
\* shows the one notification that there is nothing to move, asks no question
\* and writes neither a source file, nor GlobalUsings.cs, nor the manifest
C19_NothingFoundNothingDone ==
  (op \in {"handleProject", "handleProjectAsync"} /\ pc = "done" /\ allUsings = <<>>) =>
    /\ outcome = "noop"
    /\ ui \in {<<"info:No using statements to move.">>, <<"info:No usings to move.">>}
    /\ wlog = <<>>
    /\ Snapshot = pre

\* a run of handleProject over files that were all read and hold no import
\* before their namespace declaration has ended
C19_Witness ==
  /\ op = "handleProject"
  /\ pc = "done"
  /\ skipped = {}
  /\ \A f \in SourceFiles : files[f] = TextNone
  /\ outcome = "noop"
  /\ ui = <<"info:No using statements to move.">>

\* C20: a run of handleProject that has begun Applying ends, and ends
\* Committed or RolledBack; a build that does not end in time is killed by the
\* timeout of execAsync, which counts as a failed validation and rolls back
C20_ApplyingEnds ==
  (op = "handleProject" /\ pc = "apply")
    ~> (pc = "done" /\ outcome \in {"Committed", "RolledBack"})

\* a run has rolled back after the timeout killed its build
C20_Witness ==
  /\ op = "handleProject"
  /\ pc = "done"
  /\ outcome = "RolledBack"
  /\ buildOutcome.kind = "timeout"
  /\ rbReason = "build"

(***************************************************************************)
(* C21: a failure while patching the manifest is swallowed                 *)
(***************************************************************************)
\* the manifest still lacks the reference the patcher would have added
ManifestUnpatched == csproj = pre.csproj /\ patchedCsproj(pre.csproj) # pre.csproj

\* C21: the step of updateCsprojFile, whether its read or its write fails or
\* not, never goes to rollback: it leaves the rewritten source files and the
\* written GlobalUsings.cs in place and the run goes on to validation.
C21_ManifestFailureSwallowed ==
  [][(op = "handleProject" /\ pc = "csproj")
       => (pc' = "validate" /\ files' = files /\ gu' = gu /\ rbReason' = "none")]_vars

\* a run whose manifest patch failed has ended Committed, with the source
\* files rewritten and GlobalUsings.cs written
C21_Witness ==
  /\ op = "handleProject" /\ pc = "done" /\ outcome = "Committed"
  /\ ManifestUnpatched
  /\ files # pre.files
  /\ gu.exists /\ gu # pre.gu

(***************************************************************************)
(* C22: an unreadable source file is skipped during Scanning               *)
(***************************************************************************)
\* the scan of file f is over: the loop of handleProject, or the task of
\* handleProjectAsync that read it
Scanned(f) ==
  \/ op = "handleProject" /\ pc \notin {"idle", "scan"}
  \/ op = "handleProjectAsync" /\ task[f] # "none"

\* what the extractor of the run finds in the text file f had before the run
FoundIn(f) ==
  IF op = "handleProject" THEN extractedFrom(pre.files[f]).usings
  ELSE extractedHandlersFrom(pre.files[f]).usings

NeverWritten(f) ==
  /\ files[f] = pre.files[f]
  /\ \A k \in 1..Len(wlog) : wlog[k].kind = "manifest" \/ wlog[k].path # f

\* C22: a source file that cannot be read during Scanning is skipped and
\* the run continues: the imports of every file that was read are collected,
\* the unreadable file is never written, and the run passes Scanning (it ends
\* there only with nothing to move).
C22_UnreadableSkipped ==
  /\ \A f \in SourceFiles :
       (Scanned(f) /\ f \notin skipped) => Range(FoundIn(f)) \subseteq Range(allUsings)
  /\ \A f \in skipped : NeverWritten(f)
  /\ (op = "handleProject" /\ pc = "done" /\ outcome = "noop")
       => \A f \in SourceFiles \ skipped : FoundIn(f) = <<>>
  /\ (op = "handleProjectAsync" /\ pc = "done") => \A f \in SourceFiles : Scanned(f)

\* the first file could not be read, the imports of another file were moved
\* and the run ended Committed
C22_Witness ==
  /\ op = "handleProject" /\ pc = "done" /\ outcome = "Committed"
  /\ 1 \in skipped
  /\ \E f \in SourceFiles \ skipped : FoundIn(f) # <<>> /\ files[f] # pre.files[f]

(***************************************************************************)
(* C23: the resolver returns the referenced project manifests that exist   *)
(***************************************************************************)
Resolved == rVariant \in {"sln", "slnHandlers", "slnx"}

\* a Project entry that holds a path ending in the project-manifest suffix
IsReference(entry) == entry.project /\ EndsWith(entry.path, dotCsproj)

\* the path an entry refers to, resolved against the directory of the
\* manifest: the text grammar reads a backslash as a separator
ReferencedPath(entry) ==
  IF rVariant = "slnx" THEN resolve(rSep, SlnDir, entry.path)
  ELSE resolve(rSep, SlnDir, replaceBackslashes(entry.path, rSep))

\* the positions of the entries whose referenced path exists on disk
ExistingReferences ==
  {i \in 1..Len(rEntries) :
     IsReference(rEntries[i]) /\ ReferencedPath(rEntries[i]) \in rDisk}

\* the number of positions of S up to i
Rank(S, i) == Cardinality({j \in S : j <= i})

\* C23: for a .sln or a .slnx that was read, the resolver returns exactly the
\* referenced project-manifest paths that exist on disk, in reference order:
\* one path for each reference that exists, at the place the reference has
\* among them; a reference whose resolved path does not exist is dropped.
C23_ExistingReferencesInOrder ==
  Resolved =>
    /\ Len(rOut) = Cardinality(ExistingReferences)
    /\ \A i \in ExistingReferences :
         rOut[Rank(ExistingReferences, i)] = ReferencedPath(rEntries[i])

\* two references, the second of which does not exist on disk: exactly the
\* first is returned
C23_Witness ==
  /\ Resolved
  /\ Len(rEntries) = 2
  /\ IsReference(rEntries[1]) /\ IsReference(rEntries[2])
  /\ ReferencedPath(rEntries[1]) \in rDisk
  /\ ReferencedPath(rEntries[2]) \notin rDisk
  /\ rOut = <<ReferencedPath(rEntries[1])>>

(***************************************************************************)
(* C24, C25, C26: blank lines and statements in the remainder              *)
(***************************************************************************)
\* the lines of a text; the empty text has none
LineCount(text) == IF text = EmptyText THEN 0 ELSE Len(text)

\* the blank lines before the first namespace declaration of a text
BlanksBefore(text) ==
  IF text = EmptyText THEN {}
  ELSE {i \in 1..(FirstNamespace(text) - 1) : IsBlankLine(text[i])}

\* the blank lines directly above a line before the namespace declaration
\* that is neither blank nor an import
BlanksAboveContent(text) ==
  {i \in BlanksBefore(text) :
     /\ i + 1 < FirstNamespace(text)
     /\ ~IsBlankLine(text[i + 1])
     /\ text[i + 1] \notin ImportLines}

\* C24: a blank line before the namespace declaration that stands above
\* content which is neither blank nor an import is preserved: the remainder
\* has at least as many blank lines before its namespace declaration as the
\* original has blank lines directly above such content.
C24_BlankAboveContentKept ==
  xVariant # "none" =>
    Cardinality(BlanksBefore(xOut.updatedContent)) >= Cardinality(BlanksAboveContent(xText))

\* C25: every extracted import line is deleted, not replaced by a blank line:
\* the remainder has no more blank lines before its namespace declaration
\* than the original, and at most as many lines as the original has lines
\* that are not imports.
C25_ImportsDeletedNotBlanked ==
  xVariant # "none" =>
    /\ Cardinality(BlanksBefore(xOut.updatedContent)) <= Cardinality(BlanksBefore(xText))
    /\ LineCount(xOut.updatedContent) <= LineCount(xText) - Len(xOut.usings)

\* the lines of a text that are not blank and for which keep holds, in order
Statements(text, keep) ==
  SelectSeqBy(text, <<>> \o [i \in 1..Len(text) |-> ~IsBlankLine(text[i]) /\ keep[i]])

\* the lines of a text that are not imports before its namespace declaration
NotImport(text) ==
  <<>> \o [i \in 1..Len(text) |-> ~(i < FirstNamespace(text) /\ text[i] \in ImportLines)]

EveryLine(text) == <<>> \o [i \in 1..Len(text) |-> TRUE]

AliasBindings ==
  {[using |-> u_AliasMath, alias |-> "M", target |-> "System.Math"],
   [using |-> u_AliasMathTight, alias |-> "M", target |-> "System.Math"],
   [using |-> u_AliasText, alias |-> "M", target |-> "System.Text"]}

\* the target of a static import
StaticTargets ==
  {[using |-> u_StaticSystemMath, target |-> "System.Math"],
   [using |-> u_StaticTabSystemMath, target |-> "System.Math"]}

\* one alias is bound to two different targets
AliasCollision(usings) ==
  \E a, b \in AliasBindings :
    /\ InSeq(usings, a.using) /\ InSeq(usings, b.using)
    /\ a.alias = b.alias /\ a.target # b.target

\* one static target is imported by two entries
StaticRepeated(usings) ==
  \E a, b \in StaticTargets :
    /\ InSeq(usings, a.using) /\ InSeq(usings, b.using)
    /\ a.using # b.using /\ a.target = b.target

ConflictPrompted == InSeq(ui, "prompt:Potential conflicts detected.")

\* the run has left ConflictCheck: it goes on, or has ended there
PastConflictCheck ==
  /\ op = "handleProject"
  /\ \/ pc \notin {"idle", "scan", "conflict", "done"}
     \/ pc = "done" /\ outcome # "noop"

\* C29: the warning of ConflictCheck is raised exactly when the accumulated
\* imports bind one alias to two different targets or import one static target
\* more than once; a run with such a conflict goes past ConflictCheck only
\* when the user has chosen Continue (any other answer ends the run as
\* declined), and a run without one goes on without the prompt.
C29_WarningIffConflict ==
  PastConflictCheck =>
    /\ ConflictPrompted <=> (AliasCollision(allUsings) \/ StaticRepeated(allUsings))
    /\ pc = "preview" => ~declined
    /\ outcome = "conflict-declined" => (ConflictPrompted /\ declined)

\* two spellings of one static import were found, the warning was raised and
\* the run went on to the preview
C29_Witness ==
  /\ PastConflictCheck
  /\ pc = "preview"
  /\ StaticRepeated(allUsings) /\ ~AliasCollision(allUsings)
  /\ ConflictPrompted

(***************************************************************************)
(* C27: a source file belongs to one project run                           *)
(***************************************************************************)
\* the runs that read file p with imports in it and rewrite it
Rewriters(p) == {m \in MemberRuns : cTask[m][p] \in {"write", "written"}}

\* C27: in a solution-level run with the members processed concurrently, no
\* source file is read, extracted and rewritten by two project runs, also
\* when the directory of a member is inside, or is, that of another member.
C27_OneRunPerFile ==
  \A p \in SolutionTree : Cardinality(Rewriters(p)) <= 1

(***************************************************************************)
(* C28: which files the walker yields                                      *)
(***************************************************************************)
\* p lies in a directory that cannot be listed
UnderDenied(p) == \E d \in wDenied : Below(d, p)

\* outside every pruned directory, with the source suffix, and not named
\* GlobalUsings.cs
Eligible(p) ==
  /\ ~PrunedBelowRoot(p, Len(p) - 1)
  /\ EndsWith(p[Len(p)], dotCs)
  /\ p[Len(p)] # globalUsingsFileName

\* C28: the walker yields a file exactly when it lies outside every pruned
\* directory, its name ends with .cs and its name is not GlobalUsings.cs (the
\* files of a directory that cannot be listed aside); so a file named
\* MyGlobalUsings.cs is yielded.
C28_YieldsExactlyEligible ==
  wVariant # "none" =>
    Range(wOut.results) = {p \in wTree : Eligible(p) /\ ~UnderDenied(p)}

(***************************************************************************)
(* C30: import conservation                                                *)
(***************************************************************************)
\* the import statements of a text: its lines that, trimmed, match the import
\* pattern
ImportsIn(text) ==
  {Trim(text[i]) : i \in {j \in 1..Len(text) : usingRegexHandlers(Trim(text[j]))}}

\* the import is a global entry of the consolidated file of some directory
RecordedShared(u) ==
  \E d \in MemberDirs : cGu[d].exists /\ InSeq(cGu[d].text, Global(u))

\* every member run of the solution has ended
SharedTerminal == cPc # <<>> /\ \A m \in MemberRuns : cPc[m] = "done"

\* C30: at the end of a solution operation whose member runs are concurrent,
\* every import that was in a source file before the operation is still in
\* that file or is a global entry of a GlobalUsings.cs.
C30_ImportsConserved ==
  SharedTerminal =>
    \A p \in SolutionTree :
      \A u \in ImportsIn(cPre[p]) : u \in ImportsIn(cText[p]) \/ RecordedShared(u)

\* the same at the end of a project run of either variant, of a file run and
\* of a sequential solution, when the rollback writes have succeeded
ImportsConservedInRun ==
  (pc = "done" /\ rbFailed = {}) =>
    \A p \in SourceFiles :
      \A u \in ImportsIn(pre.files[p]) :
        u \in ImportsIn(files[p]) \/ (gu.exists /\ InSeq(gu.text, Global(u)))

(***************************************************************************)
(* C31: the project after a rollback for a failed build                    *)
(***************************************************************************)
\* the run ended RolledBack because build validation reported failure
RolledBackAfterBuild == ValidationFailed /\ outcome = "RolledBack"

\* the manifest has its pre-run text
ManifestRestored == csproj = pre.csproj

\* no GlobalUsings.cs exists if none existed before the run
NoNewGlobalUsings == ~pre.gu.exists => ~gu.exists

\* C31: a run that ends RolledBack after a failed build validation leaves the
\* project manifest with its pre-run text and leaves no GlobalUsings.cs if
\* none existed before the run.
C31_RollbackRestoresProject ==
  RolledBackAfterBuild => (ManifestRestored /\ NoNewGlobalUsings)

\* the manifest alone
RollbackRestoresManifest == RolledBackAfterBuild => ManifestRestored

\* GlobalUsings.cs alone
RollbackRemovesGlobalUsings == RolledBackAfterBuild => NoNewGlobalUsings

(***************************************************************************)
(* C32: the success notification of the solution                           *)
(***************************************************************************)
SolutionSuccessShown ==
  InSeq(sUi, "info:Usings moved to GlobalUsings.cs for all projects in solution!")

\* the outcomes of the member runs that have returned
MemberOutcomes == Range(sOutcomes)

\* C32: the success notification of the solution is shown only if the run of
\* every member project ended Committed or as a no-op; it is not shown when a
\* member ended RolledBack or was cancelled by the user.
C32_SuccessOnlyIfAllCommitted ==
  SolutionSuccessShown => MemberOutcomes \subseteq {"Committed", "noop"}

\* not shown after a member that was rolled back
NoSuccessAfterRollback == SolutionSuccessShown => "RolledBack" \notin MemberOutcomes

\* not shown after a member the user cancelled
NoSuccessAfterCancel ==
  SolutionSuccessShown =>
    MemberOutcomes \cap {"conflict-declined", "preview-declined"} = {}

\* not shown after a member whose run threw
NoSuccessAfterThrow == SolutionSuccessShown => "failed" \notin MemberOutcomes

(***************************************************************************)
(* C33: the consolidated content written and the one previewed             *)
(***************************************************************************)
\* the user approved the preview that showPreview displayed
PreviewShown == InSeq(ui, "prompt:Preview the changes and confirm to proceed.")

\* writeGlobalUsings of the run has just written GlobalUsings.cs
GlobalUsingsJustWritten == op = "handleProject" /\ pc = "csproj"

\* C33: when the user has approved the preview, the content of GlobalUsings.cs
\* written during Applying is identical to the new content the preview
\* computed and showed (within a run no file is changed between the preview
\* and the write but the source files the run rewrites).
C33_WrittenIsPreviewed ==
  (GlobalUsingsJustWritten /\ PreviewShown) => gu.text = previewContent

\* the same for runs in which no read and no write has failed
WrittenIsPreviewedWithoutFaults ==
  (GlobalUsingsJustWritten /\ PreviewShown /\ faults = 0) => gu.text = previewContent

\* such a run on a project that had a GlobalUsings.cs with global entries
WrittenIsPreviewedReached ==
  /\ GlobalUsingsJustWritten /\ PreviewShown /\ faults = 0
  /\ pre.gu.exists
  /\ gu.text = previewContent
  /\ gu.text # pre.gu.text

====
